---- MODULE Spec2Model ----
(***************************************************************************)
(* Turn engine of the card battler (game controller, playTurn and its      *)
(* helpers).  One request resolves one turn: the request carries the whole *)
(* prior state (piles, ledger arrays, field arrays, HP/SP), the handler    *)
(* runs the player's phases, the enemy's phases and the duration tick, and *)
(* the response carries the next state, which the client echoes back.      *)
(*                                                                         *)
(* HP is kept in half points (hp2 = 2 * HP): the damage formula divides    *)
(* durability * power by 2, so every HP value of the code is a multiple of *)
(* 1/2 when the stats are integers.                                        *)
(***************************************************************************)
EXTENDS Integers, Sequences, FiniteSets, TLC

VARIABLES
  pc,            \* position inside playTurn ("idle" between requests)
  turn,          \* number of requests answered so far
  req,           \* the request body being resolved
  stats,         \* base stats per side (playerStats / enemyStats)
  hp2,           \* 2 * playerHp / enemyHp
  sp,            \* playerSp / enemySp
  hand,          \* oldPlayerHand / oldEnemyHand (sequences of instance ids)
  deck,          \* playerDeck / enemyDeck
  saved,         \* the state the client holds: the last result it was sent
  buckets,       \* effectBuckets: the ledger as insertion-ordered maps
  onField,       \* onField.player / onField.enemy
  buffDef,       \* playerBuffDef / enemyBuffDef
  eChoice,       \* the enemy's chosen action and cards
  exitKind,      \* how the last request ended: full, noop, seed, rejected
  phases,        \* phases run so far in this request
  upLog,         \* upserts performed by the last step
  negLog,        \* Ability Negation removals performed by the last step
  hitLog,        \* hits resolved by the last step
  revLog,        \* HP-lowering points passed by the last step
  abLog,         \* opponent-targeting abilities met by the last step
  tickLog,       \* the ledger as the last duration tick found it
  rollLog,       \* abilities of the cards played by the last step
  fireLog,       \* child abilities fired by the last field tick
  promptLog,     \* retarget prompts pushed by the last field tick
  cardDb,        \* the Card collection the played cards are read from
  aiConfig,      \* the aiConfig of the Enemy document
  frzLog,        \* per side: the last Freeze adopted against it, skips since
  store,         \* the persisted SavedGame snapshot (saveState / loadState)
  calls,         \* turn requests of overlapping clients, by client
  serving        \* whose request the handler is resolving

vars == <<pc, turn, req, stats, hp2, sp, hand, deck, saved, buckets,
          onField, buffDef, eChoice, exitKind, phases, upLog, negLog, hitLog,
          revLog, abLog, tickLog, rollLog, fireLog, promptLog, cardDb, aiConfig,
          frzLog, store, calls, serving>>

(***************************************************************************)
(* Program constants and bounds                                            *)
(***************************************************************************)
HAND_SIZE == 3
MAX_FIELD_SLOTS == 3

MaxTurns == 2

Sides == {"player", "enemy"}
Other(s) == IF s = "player" THEN "enemy" ELSE "player"

Max(a, b) == IF a >= b THEN a ELSE b
Min(a, b) == IF a <= b THEN a ELSE b
clamp(n, lo, hi) == Max(lo, Min(hi, n))

RECURSIVE SumSeq(_)
SumSeq(s) == IF s = <<>> THEN 0 ELSE Head(s) + SumSeq(Tail(s))

SeqToSet(s) == {s[i] : i \in 1..Len(s)}

(***************************************************************************)
(* Card catalog: authored cards and their (normalized) abilities           *)
(***************************************************************************)
NoTarget == "null"

\* multiHit.schedule of an ability authored without one
NoSchedule == [type |-> "none", times |-> 1, turns |-> {}]

\* normalizeAbility: the canonical ability shape
Ab(type, key, power, duration, chance, prec, linked, turns) ==
  [type |-> type, key |-> key, power |-> power, duration |-> duration,
   activationChance |-> chance, precedence |-> prec, linkedTo |-> linked,
   legacyTargetCode |-> 0, turns |-> turns, schedule |-> NoSchedule,
   mode |-> "lock"]

\* an ability authored with multiHit.schedule {type: 'list', turns}
Listed(ab, turns) ==
  [ab EXCEPT !.schedule = [type |-> "list", times |-> 1, turns |-> turns]]

\* an ability authored with multiHit.schedule {type: 'random', times}
Sampled(ab, times) ==
  [ab EXCEPT !.schedule = [type |-> "random", times |-> Max(1, times),
                           turns |-> {}]]

\* a Multi-Hit ability authored with multiHit.targeting.mode
Targeting(ab, mode) == [ab EXCEPT !.mode = mode]

Card(types, spCost, potency, defense, abilities) ==
  [types |-> types, spCost |-> spCost, potency |-> potency,
   defense |-> defense, abilities |-> abilities]

Catalog ==
  [Strike  |-> Card({"Physical"}, 1, 5, 0, <<>>),
   Barrage |-> Card({"Physical"}, 1, 2, 0,
                 <<Ab("Multi-Hit", "mh", 0, 0, 100, 0, <<>>, 3),
                   Ab("Stats Down", "sd", 3, 2, 100, 1, <<"attack">>, 0)>>),
   Volley  |-> Card({"Supernatural"}, 1, 1, 0,
                 <<Ab("Multi-Hit", "mh", 0, 0, 100, 0, <<>>, 3)>>),
   Ward    |-> Card({}, 1, 0, 2,
                 <<Ab("Guard", "g", 0, 2, 100, 3, <<>>, 0),
                   Ab("Revive", "r", 50, 3, 60, 2, <<>>, 0)>>),
   Dispel  |-> Card({"Supernatural"}, 1, 1, 0,
                 <<Ab("Ability Negation", "an", 2, 0, 100, 5, <<>>, 0),
                   Ab("Stats Up", "su", 4, -1, 100, 5, <<"an">>, 0)>>),
   Purge   |-> Card({}, 1, 0, 0,
                 <<Ab("Ability Negation", "an", 7, 0, 50, 5, <<>>, 0)>>),
   Pierce  |-> Card({"Physical"}, 1, 3, 0,
                 <<Ab("Durability Negation", "dn", 0, 0, 100, 1, <<>>, 0),
                   Ab("Curse", "cu", 2, 2, 100, 2, <<>>, 0)>>),
   Doom    |-> Card({}, 2, 0, 0,
                 <<Ab("Instant Death", "id", 0, 0, 50, 6, <<>>, 0)>>),
   Aegis   |-> Card({}, 1, 0, 1,
                 <<Ab("Ability Shield", "as", 0, 2, 100, 4, <<>>, 0),
                   Ab("Stats Down", "sd", 30, 2, 100, 2, <<>>, 0)>>),
   Chill   |-> Card({"Supernatural"}, 1, 1, 0,
                 <<Ab("Freeze", "fz", 0, 2, 100, 2, <<>>, 0)>>),
   Lance   |-> Card({"Physical"}, 1, 3, 0,
                 <<Ab("Durability Negation", "dn", 0, 0, 0, 1, <<>>, 0)>>),
   Hex     |-> Card({}, 1, 0, 0,
                 <<Ab("Stats Down", "sd", 2, 2, 100, 7, <<"cu">>, 0),
                   Ab("Curse", "cu", 2, 2, 50, 2, <<>>, 0),
                   Ab("Instant Death", "id", 0, 0, 100, 1, <<"cu">>, 0)>>),
   Seeker  |-> Card({"Supernatural"}, 1, 1, 0,
                 <<Targeting(Ab("Multi-Hit", "mh", 0, 0, 100, 0, <<>>, 3),
                             "retarget-random"),
                   Sampled(Ab("Stats Up", "su", 1, 2, 100, 1, <<"mh">>, 0),
                           1)>>),
   Snare   |-> Card({"Supernatural"}, 1, 1, 0,
                 <<Targeting(Ab("Multi-Hit", "mh", 0, 0, 100, 0, <<>>, 3),
                             "retarget-choose"),
                   Listed(Ab("Unluck", "ul", 5, 2, 50, 1, <<"attack">>, 0),
                          {3})>>),
   Drill   |-> Card({"Physical"}, 1, 1, 0,
                 <<Ab("Multi-Hit", "mh", 0, 0, 100, 0, <<>>, 3),
                   Ab("Durability Negation", "dn", 0, 0, 100, 1,
                      <<"attack">>, 0)>>)]

\* card instances: instance id -> catalog name
CardOf ==
  [i \in (1..27) |->
     CASE i \in {1, 11, 26} -> "Strike"
       [] i \in {2, 12} -> "Barrage"
       [] i = 3 -> "Dispel"
       [] i = 4 -> "Pierce"
       [] i \in {5, 15} -> "Doom"
       [] i \in {6, 8, 10, 16, 17, 18} -> "Volley"
       [] i = 7 -> "Purge"
       [] i \in {9, 27} -> "Chill"
       [] i = 13 -> "Ward"
       [] i = 14 -> "Aegis"
       [] i = 21 -> "Lance"
       [] i = 22 -> "Hex"
       [] i \in {19, 23, 24} -> "Seeker"
       [] i = 20 -> "Snare"
       [] i = 25 -> "Drill"]

CardDef(iid) == cardDb[CardOf[iid]]

\* getTypes
getTypes(iid) == CardDef(iid).types
\* getAbilities
getAbilities(iid) == CardDef(iid).abilities

spCostOf(iid) == CardDef(iid).spCost

(***************************************************************************)
(* Persistent effect ledger                                                *)
(***************************************************************************)
PERSISTENT_TYPES ==
  {"Stats Up", "Stats Down", "Lucky", "Unluck", "Freeze", "Curse",
   "Guard", "Ability Shield", "Revive"}
PER_ATTACK_TYPES == {"Durability Negation", "Ability Negation", "Instant Death"}

\* the opponent-targeting test shared by pre-damage, adoption and field firing
targetsOpponent(type) ==
  type \in {"Stats Down", "Freeze", "Unluck", "Curse", "Ability Negation",
            "Instant Death", "Durability Negation"}

Eff(type, target, power, prec, remaining) ==
  [type |-> type, target |-> target, power |-> power,
   precedence |-> prec, remaining |-> remaining]

\* the Map key  type + (target ? ":" + target : "")
KeyOf(e) == <<e.type, e.target>>

MapHas(m, k) == \E i \in 1..Len(m) : KeyOf(m[i]) = k
MapIdx(m, k) == CHOOSE i \in 1..Len(m) : KeyOf(m[i]) = k
MapGet(m, k) == m[MapIdx(m, k)]
MapSet(m, k, v) ==
  IF MapHas(m, k) THEN [m EXCEPT ![MapIdx(m, k)] = v] ELSE Append(m, v)
MapDelete(m, k) == SelectSeq(m, LAMBDA e : KeyOf(e) # k)

\* loadActiveBuckets / makeMap
RECURSIVE makeMap(_, _)
makeMap(arr, map) ==
  IF arr = <<>> THEN map
  ELSE LET e == Head(arr)
       IN makeMap(Tail(arr),
                  MapSet(map, KeyOf(e),
                         Eff(e.type, e.target, e.power, e.precedence,
                             Max(0, e.remaining))))

loadActiveBuckets(ae) == [s \in Sides |-> makeMap(ae[s], <<>>)]

\* dumpActiveBuckets
dumpActiveBuckets(b) == [s \in Sides |-> b[s]]

\* mutation of the refresh branch: the new duration is added to the old one
RefreshStacking(existing, entry) ==
  [existing EXCEPT !.power = entry.power,
                   !.precedence = Max(existing.precedence, entry.precedence),
                   !.remaining = existing.remaining + Max(entry.duration, 0)]

\* upsertPersistentEffect, branch "existing"
Refresh(existing, entry) ==
  [existing EXCEPT !.power = entry.power,
                   !.precedence = Max(existing.precedence, entry.precedence),
                   !.remaining = Max(entry.duration, 0)]

\* mutation of the upsert: the entry is always inserted
upsertAlwaysInsert(bucketMap, entry) ==
  Append(bucketMap, Eff(entry.type, entry.target, entry.power,
                        entry.precedence, Max(entry.duration, 0)))

\* upsertPersistentEffect
upsertPersistentEffect(bucketMap, entry) ==
  LET key == <<entry.type, entry.target>>
  IN IF MapHas(bucketMap, key)
     THEN MapSet(bucketMap, key, Refresh(MapGet(bucketMap, key), entry))
     ELSE MapSet(bucketMap, key,
                 Eff(entry.type, entry.target, entry.power, entry.precedence,
                     Max(entry.duration, 0)))

\* what one upsert did, for the record kept in upLog
UpsertEvent(bucketMap, entry, via) ==
  LET key == <<entry.type, entry.target>>
      after == upsertPersistentEffect(bucketMap, entry)
  IN [via |-> via, type |-> entry.type, target |-> entry.target,
      existed |-> MapHas(bucketMap, key),
      oldRemaining |-> IF MapHas(bucketMap, key)
                       THEN MapGet(bucketMap, key).remaining ELSE 0,
      duration |-> entry.duration,
      newRemaining |-> MapGet(after, key).remaining,
      power |-> entry.power, precedence |-> entry.precedence,
      oldPower |-> IF MapHas(bucketMap, key)
                   THEN MapGet(bucketMap, key).power ELSE 0,
      oldPrecedence |-> IF MapHas(bucketMap, key)
                        THEN MapGet(bucketMap, key).precedence ELSE 0,
      newPower |-> MapGet(after, key).power,
      newPrecedence |-> MapGet(after, key).precedence]

\* resolveStatTarget
resolveStatTarget(ab, types) ==
  CASE ab.legacyTargetCode = 1 -> "attackPower"
    [] ab.legacyTargetCode = 2 -> "physicalPower"
    [] ab.legacyTargetCode = 3 -> "supernaturalPower"
    [] ab.legacyTargetCode = 4 -> "durability"
    [] ab.legacyTargetCode = 5 -> "speed"
    [] OTHER -> IF "Physical" \in types THEN "physicalPower"
                ELSE IF "Supernatural" \in types THEN "supernaturalPower"
                ELSE "attackPower"

\* the ledger entry an ability becomes ({ ...ab } plus the stat target)
EntryOf(ab, types) ==
  [type |-> ab.type,
   target |-> IF ab.type \in {"Stats Up", "Stats Down"}
              THEN resolveStatTarget(ab, types) ELSE NoTarget,
   power |-> ab.power, precedence |-> ab.precedence,
   duration |-> ab.duration]

\* mutation of the tick: the entry that follows a deleted one is passed over
RECURSIVE tickSkipsAfterDelete(_, _)
tickSkipsAfterDelete(map, i) ==
  IF i > Len(map) THEN <<>>
  ELSE LET eff == map[i]
           rem == IF eff.remaining > 0 THEN eff.remaining - 1 ELSE eff.remaining
       IN IF rem <= 0
          THEN (IF i + 1 <= Len(map) THEN <<map[i + 1]>> ELSE <<>>)
               \o tickSkipsAfterDelete(map, i + 2)
          ELSE <<[eff EXCEPT !.remaining = rem]>>
               \o tickSkipsAfterDelete(map, i + 1)

\* tickBuckets
RECURSIVE tickBuckets(_, _)
tickBuckets(map, i) ==
  IF i > Len(map) THEN <<>>
  ELSE LET eff == map[i]
           rem == IF eff.remaining > 0 THEN eff.remaining - 1 ELSE eff.remaining
       IN IF rem <= 0 THEN tickBuckets(map, i + 1)
          ELSE <<[eff EXCEPT !.remaining = rem]>> \o tickBuckets(map, i + 1)

(***************************************************************************)
(* Context and stats                                                       *)
(***************************************************************************)
NoToggle == [active |-> FALSE, precedence |-> 0]

\* the per-side context record created fresh for each main action
FreshCtx ==
  [chanceUp |-> 0, chanceDown |-> 0, abilityShield |-> NoToggle,
   guard |-> NoToggle, frozenTurns |-> 0, curseSuppress |-> 0]

StatNames ==
  {"attackPower", "physicalPower", "supernaturalPower", "durability",
   "vitality", "intelligence", "speed", "maxSp"}

\* applyPersistentToContext: res = [temp |-> tempStats, ctx |-> ctx[sideKey]]
RECURSIVE applyPersistentToContext(_, _, _)
applyPersistentToContext(bucket, i, res) ==
  IF i > Len(bucket) THEN res
  ELSE LET eff == bucket[i]
           stat == IF eff.target = NoTarget THEN "attackPower" ELSE eff.target
           t == res.temp
           c == res.ctx
           next ==
             IF eff.remaining <= 0 THEN res
             ELSE CASE eff.type = "Stats Up" ->
                         [res EXCEPT !.temp = [t EXCEPT ![stat] = @ + eff.power]]
                    [] eff.type = "Stats Down" ->
                         [res EXCEPT !.temp = [t EXCEPT ![stat] = @ - eff.power]]
                    [] eff.type = "Lucky" ->
                         [res EXCEPT !.ctx = [c EXCEPT !.chanceUp = @ + eff.power]]
                    [] eff.type = "Unluck" ->
                         [res EXCEPT !.ctx = [c EXCEPT !.chanceDown = @ + eff.power]]
                    [] eff.type = "Freeze" ->
                         [temp |-> [t EXCEPT !.speed = 0],
                          ctx |-> [c EXCEPT !.frozenTurns = Max(@, 1)]]
                    [] eff.type = "Curse" ->
                         [res EXCEPT !.ctx = [c EXCEPT !.curseSuppress =
                                       Max(@, Min(3, Max(0, eff.power)))]]
                    [] eff.type = "Guard" ->
                         [res EXCEPT !.ctx = [c EXCEPT !.guard =
                             [active |-> TRUE, precedence |-> eff.precedence]]]
                    [] eff.type = "Ability Shield" ->
                         [res EXCEPT !.ctx = [c EXCEPT !.abilityShield =
                             [active |-> TRUE, precedence |-> eff.precedence]]]
                    [] OTHER -> res
       IN applyPersistentToContext(bucket, i + 1, next)

\* temp stats and context of one side at the start of a main action
Carry(b, st, s) ==
  applyPersistentToContext(b[s], 1, [temp |-> st[s], ctx |-> FreshCtx])

(***************************************************************************)
(* Effect queue                                                            *)
(***************************************************************************)
\* all abilities of the played cards, in card order then ability order
RECURSIVE AbilityEntries(_)
AbilityEntries(cards) ==
  IF cards = <<>> THEN <<>>
  ELSE LET abs == getAbilities(Head(cards))
       IN [i \in 1..Len(abs) |-> [card |-> Head(cards), ability |-> abs[i]]]
          \o AbilityEntries(Tail(cards))

\* stable insertion by precedence, highest first
InsertDesc(sorted, e) ==
  LET later == {j \in 1..Len(sorted) :
                  sorted[j].ability.precedence < e.ability.precedence}
      pos == IF later = {} THEN Len(sorted) + 1
             ELSE CHOOSE j \in later : \A k \in later : j <= k
  IN SubSeq(sorted, 1, pos - 1) \o <<e>> \o SubSeq(sorted, pos, Len(sorted))

RECURSIVE SortDesc(_, _)
SortDesc(entries, acc) ==
  IF entries = <<>> THEN acc
  ELSE SortDesc(Tail(entries), InsertDesc(acc, Head(entries)))

\* buildEffectQueue
buildEffectQueue(cards) ==
  SortDesc(SelectSeq(AbilityEntries(cards),
                     LAMBDA e : e.ability.type # "None"
                                /\ e.ability.activationChance > 0),
           <<>>)

(***************************************************************************)
(* Pre-damage resolver                                                     *)
(***************************************************************************)
\* intMult, in thousandths of a percent point
intMult(baseChance, intStat) ==
  clamp(baseChance * 1000 + baseChance * clamp(intStat, 0, 1000), 0, 100000)

\* finalChance of an ability, in thousandths of a percent point
finalChance(chance, ownerCtx, targetCtx, intStat) ==
  intMult(clamp(chance + ownerCtx.chanceUp - targetCtx.chanceDown, 0, 100),
          intStat)

\* roll: Math.random() * 100 < chance; draw is the outcome when both can happen
roll(chance1000, draw) ==
  IF chance1000 >= 100000 THEN TRUE
  ELSE IF chance1000 <= 0 THEN FALSE ELSE draw

\* blockedByShield
blockedByShield(shield, ab) ==
  shield.active /\ shield.precedence >= ab.precedence

\* queueApply over the attacker's queue.
\* st = [success, pending, attackLinked, ownerCtx, trace]; trace[i] is what
\* the loop did with queue[i]
RECURSIVE queueApply(_, _, _, _, _, _)
queueApply(queue, i, st, targetCtx, intStat, draws) ==
  IF i > Len(queue) THEN st
  ELSE
    LET entry == queue[i]
        ab == entry.ability
        parents == {ab.linkedTo[j] : j \in 1..Len(ab.linkedTo)} \ {"attack"}
        ok == \A p \in parents : <<entry.card, p>> \in st.success
        final == finalChance(ab.activationChance, st.ownerCtx, targetCtx, intStat)
        marked == [st EXCEPT !.success = @ \cup {<<entry.card, ab.key>>}]
        next ==
          IF ~ok THEN st
          ELSE IF targetsOpponent(ab.type)
                  /\ blockedByShield(targetCtx.abilityShield, ab) THEN st
          ELSE IF \E j \in 1..Len(ab.linkedTo) : ab.linkedTo[j] = "attack"
               THEN [marked EXCEPT !.attackLinked = Append(@, entry)]
          ELSE IF ~roll(final, draws[i]) THEN st
          ELSE LET won == [marked EXCEPT !.pending = Append(@, entry)]
               IN IF ab.type = "Ability Shield"
                  THEN [won EXCEPT !.ownerCtx.abilityShield =
                          [active |-> TRUE, precedence |-> ab.precedence]]
                  ELSE IF ab.type = "Guard"
                  THEN [won EXCEPT !.ownerCtx.guard =
                          [active |-> TRUE, precedence |-> ab.precedence]]
                  ELSE won
        outcome ==
          IF ~ok THEN "gated"
          ELSE IF targetsOpponent(ab.type)
                  /\ blockedByShield(targetCtx.abilityShield, ab)
          THEN "blocked"
          ELSE IF \E j \in 1..Len(ab.linkedTo) : ab.linkedTo[j] = "attack"
          THEN "deferred"
          ELSE IF ~roll(final, draws[i]) THEN "missed" ELSE "won"
    IN queueApply(queue, i + 1, [next EXCEPT !.trace = Append(@, outcome)],
                  targetCtx, intStat, draws)

\* stable insertion by precedence, lowest first
InsertAsc(sorted, e) ==
  LET later == {j \in 1..Len(sorted) : sorted[j].precedence > e.precedence}
      pos == IF later = {} THEN Len(sorted) + 1
             ELSE CHOOSE j \in later : \A k \in later : j <= k
  IN SubSeq(sorted, 1, pos - 1) \o <<e>> \o SubSeq(sorted, pos, Len(sorted))

RECURSIVE SortAsc(_, _)
SortAsc(entries, acc) ==
  IF entries = <<>> THEN acc
  ELSE SortAsc(Tail(entries), InsertAsc(acc, Head(entries)))

\* mutation of the removal loop: entries at the negation's own precedence go too
RECURSIVE removeUpToInclusive(_, _, _, _, _)
removeUpToInclusive(ordered, i, tgtBucket, remainingToRemove, prec) ==
  IF i > Len(ordered) \/ remainingToRemove <= 0 THEN tgtBucket
  ELSE IF ordered[i].precedence <= prec
       THEN removeUpToInclusive(ordered, i + 1,
                                MapDelete(tgtBucket, KeyOf(ordered[i])),
                                remainingToRemove - 1, prec)
       ELSE removeUpToInclusive(ordered, i + 1, tgtBucket,
                                remainingToRemove, prec)

\* applyNegation, the loop over the precedence-ordered entries of the target
RECURSIVE removeUpTo(_, _, _, _, _)
removeUpTo(ordered, i, tgtBucket, remainingToRemove, prec) ==
  IF i > Len(ordered) \/ remainingToRemove <= 0 THEN tgtBucket
  ELSE IF ordered[i].precedence < prec
       THEN removeUpTo(ordered, i + 1, MapDelete(tgtBucket, KeyOf(ordered[i])),
                       remainingToRemove - 1, prec)
       ELSE removeUpTo(ordered, i + 1, tgtBucket, remainingToRemove, prec)

\* applyNegation for one successful Ability Negation
negateOne(tgtBucket, ab) ==
  removeUpTo(SortAsc(tgtBucket, <<>>), 1, tgtBucket,
             Min(3, Max(1, ab.power)), ab.precedence)

\* applyNegation(owner, target): res = [bucket, log]
RECURSIVE applyNegation(_, _)
applyNegation(entries, res) ==
  IF entries = <<>> THEN res
  ELSE LET ab == Head(entries).ability
           after == negateOne(res.bucket, ab)
       IN applyNegation(Tail(entries),
            [bucket |-> after,
             log |-> Append(res.log,
                      [power |-> ab.power, precedence |-> ab.precedence,
                       before |-> res.bucket, after |-> after])])

\* adoptPendingFor(owner, target): res = [b |-> buckets, log |-> upserts]
RECURSIVE adoptPendingFor(_, _, _, _)
adoptPendingFor(pending, owner, target, res) ==
  IF pending = <<>> THEN res
  ELSE LET ab == Head(pending).ability
           dest == IF targetsOpponent(ab.type) THEN target ELSE owner
           entry == EntryOf(ab, getTypes(Head(pending).card))
       IN IF ab.type \notin PERSISTENT_TYPES
          THEN adoptPendingFor(Tail(pending), owner, target, res)
          ELSE adoptPendingFor(Tail(pending), owner, target,
                 [b |-> [res.b EXCEPT
                           ![dest] = upsertPersistentEffect(@, entry)],
                  log |-> Append(res.log,
                            UpsertEvent(res.b[dest], entry, "adopt"))])

\* perCard: the flags of one played card
perCard(iid) ==
  LET abs == getAbilities(iid)
  IN [durabilityNegation |->
        \E i \in 1..Len(abs) :
          abs[i].type = "Durability Negation" /\ abs[i].linkedTo = <<>>,
      instantDeath |-> \E i \in 1..Len(abs) : abs[i].type = "Instant Death"]

\* the Instant Death ability kept in the per-card flags (the last one)
instantDeathOf(iid) ==
  LET abs == getAbilities(iid)
      idx == {i \in 1..Len(abs) : abs[i].type = "Instant Death"}
  IN abs[CHOOSE i \in idx : \A j \in idx : j <= i]

\* applyAbilityPreDamagePhase, the adoption of the pending abilities after
\* the negations (neg) have been applied to the target's bucket
adoptAfterNegation(queue, q, neg, owner, target, b) ==
  LET adopted == adoptPendingFor(q.pending, owner, target,
                   [b |-> [b EXCEPT ![target] = neg.bucket], log |-> <<>>])
  IN [buckets |-> adopted.b, upLog |-> adopted.log, negLog |-> neg.log,
      ownerCtx |-> q.ownerCtx, pending |-> q.pending,
      attackLinked |-> q.attackLinked, queue |-> queue, trace |-> q.trace]

\* applyAbilityPreDamagePhase, after the attacker's queue has been applied (q)
negateAndAdopt(queue, q, owner, target, b) ==
  adoptAfterNegation(queue, q,
    applyNegation(SelectSeq(q.pending,
                    LAMBDA e : e.ability.type = "Ability Negation"
                               /\ e.ability.power > 0),
                  [bucket |-> b[target], log |-> <<>>]),
    owner, target, b)

\* applyAbilityPreDamagePhase over a built queue
applyQueue(queue, owner, target, b, ownerCtx, targetCtx, intStat, draws) ==
  negateAndAdopt(queue,
    queueApply(queue, 1,
               [success |-> {}, pending |-> <<>>, attackLinked |-> <<>>,
                ownerCtx |-> ownerCtx, trace |-> <<>>],
               targetCtx, intStat, draws),
    owner, target, b)

\* applyAbilityPreDamagePhase with defenderCards = []
applyAbilityPreDamagePhase(cards, owner, target, b, ownerCtx, targetCtx, intStat, draws) ==
  applyQueue(buildEffectQueue(cards), owner, target, b, ownerCtx, targetCtx,
             intStat, draws)

(***************************************************************************)
(* Damage calculator                                                       *)
(***************************************************************************)
\* mutation of the damage formula: the floor at 0 is missing
netDamageUnfloored2(potency, powerStat, atkPow, defenderDurability, defenderPowerStat) ==
  2 * ((potency + powerStat) * atkPow) - defenderDurability * defenderPowerStat

\* 2 * netDamage = 2 * max(rawDamage - (defenderDurability * stat) / 2, 0)
netDamage2(potency, powerStat, atkPow, defenderDurability, defenderPowerStat) ==
  Max(2 * ((potency + powerStat) * atkPow)
        - defenderDurability * defenderPowerStat, 0)

\* the type-matched power stat: Physical first, else supernatural
powerStatOf(types, st) ==
  IF "Physical" \in types THEN st.physicalPower ELSE st.supernaturalPower

\* willDodge: the dodge probability in percent
dodgeChance(attackerTemp, defenderTemp, attackerCtx, defenderCtx) ==
  clamp(clamp(defenderTemp.speed - attackerTemp.speed, 0, 100)
          + (defenderCtx.chanceUp - attackerCtx.chanceDown), 0, 100)

\* willDodge: Math.random() < p; draw is the outcome when both can happen
willDodge(p, draw) ==
  IF p >= 100 THEN TRUE ELSE IF p <= 0 THEN FALSE ELSE draw

\* 2 * max(1, floor(vitality * 100 * (clamp(power, 0, 100) / 100)))
reviveHp2(vitality, power) ==
  2 * Max(1, (vitality * 100 * clamp(power, 0, 100)) \div 100)

ReviveKey == <<"Revive", NoTarget>>

(***************************************************************************)
(* On-field scheduler                                                      *)
(***************************************************************************)
CharacterRef == [kind |-> "character", side |-> "none", instanceId |-> 0]

\* the primary multi-hit ability of a card (turns > 0), if any
hasMultiHit(iid) ==
  LET abs == getAbilities(iid)
  IN \E i \in 1..Len(abs) : abs[i].type = "Multi-Hit" /\ abs[i].turns > 0

primaryOf(iid) ==
  LET abs == getAbilities(iid)
      idx == {i \in 1..Len(abs) : abs[i].type = "Multi-Hit" /\ abs[i].turns > 0}
  IN abs[CHOOSE i \in idx : \A j \in idx : i <= j]

\* linkedToPrimary: the ability is linked to the attack or to the primary
linkedToPrimary(ab, primaryKey) ==
  \E j \in 1..Len(ab.linkedTo) : ab.linkedTo[j] \in {"attack", primaryKey}

\* makeFieldCard: the children of a card eligible for a precomputed schedule
ScheduledChildren(iid) ==
  LET abs == getAbilities(iid)
  IN {i \in 1..Len(abs) : /\ abs[i].type # "Multi-Hit"
                          /\ linkedToPrimary(abs[i], primaryOf(iid).key)
                          /\ abs[i].schedule.type # "none"}

\* makeFieldCard: pool = [2..totalTurns]
Pool(iid) == 2..Max(1, primaryOf(iid).turns)

\* the keys of the children of a card whose turns are sampled at random
RandomKeys(iid) ==
  {getAbilities(iid)[i].key :
     i \in {j \in ScheduledChildren(iid) :
              getAbilities(iid)[j].schedule.type = "random"}}

\* the ability of a card with the given key
abilityOf(iid, key) ==
  LET abs == getAbilities(iid)
  IN abs[CHOOSE i \in 1..Len(abs) : abs[i].key = key]

\* makeFieldCard: the outcomes of the unique sampling from the pool, one set
\* of min(pool.length, times) turns per randomly scheduled child
SamplesOf(iid) ==
  {f \in [RandomKeys(iid) -> SUBSET Pool(iid)] :
     \A k \in RandomKeys(iid) :
       Cardinality(f[k]) = Min(Cardinality(Pool(iid)),
                               abilityOf(iid, k).schedule.times)}

\* the sampling outcomes of every multi-hit card among the played cards
PicksFor(cards) ==
  LET D == {c \in SeqToSet(cards) : hasMultiHit(c)}
  IN {f \in [D -> UNION {SamplesOf(c) : c \in D}] :
        \A c \in D : f[c] \in SamplesOf(c)}

\* no child of the card is scheduled at random
NoPicks == [k \in {} |-> {}]

\* makeFieldCard: childTurnsByKey, with pick the sampled turns by child key
childTurnsByKey(iid, pick) ==
  LET abs == getAbilities(iid)
      turnsOf(i) ==
        IF abs[i].schedule.type = "list"
        THEN {t \in abs[i].schedule.turns :
                t >= 2 /\ t <= Max(1, primaryOf(iid).turns)}
        ELSE IF abs[i].key \in DOMAIN pick THEN pick[abs[i].key] ELSE {}
      kept == {i \in ScheduledChildren(iid) : turnsOf(i) # {}}
  IN [k \in {abs[i].key : i \in kept} |->
        turnsOf(CHOOSE i \in kept : abs[i].key = k)]

\* makeFieldCard (called for cards that have a primary multi-hit ability);
\* pick is the outcome of the random sampling of the child schedules
makeFieldCard(owner, iid, pick) ==
  LET abs == getAbilities(iid)
  IN [instanceId |-> iid, owner |-> owner, hasCard |-> TRUE,
      turnsRemaining |-> Max(0, primaryOf(iid).turns - 1),
      mode |-> primaryOf(iid).mode, targetRef |-> CharacterRef,
      turnIndex |-> 0,
      dnAuto |-> \E i \in 1..Len(abs) : abs[i].type = "Durability Negation",
      childTurns |-> childTurnsByKey(iid, pick)]

\* resolveTargetRef: "none" stands for null
resolveTargetRef(fc, mine, other, mineKey) ==
  IF fc.targetRef.kind = "character" THEN "character"
  ELSE LET list == IF fc.targetRef.side = mineKey THEN mine ELSE other
       IN IF \E i \in 1..Len(list) :
                 list[i].instanceId = fc.targetRef.instanceId
          THEN "field"
          ELSE IF fc.mode = "retarget-random" THEN "character" ELSE "none"

\* resolveTargetRef: the prompt pushed for a vanished target of a
\* 'retarget-choose' card
promptsOf(fc, mine, other, mineKey) ==
  LET list == IF fc.targetRef.side = mineKey THEN mine ELSE other
  IN IF /\ fc.targetRef.kind = "field"
        /\ ~\E i \in 1..Len(list) :
               list[i].instanceId = fc.targetRef.instanceId
        /\ fc.mode = "retarget-choose"
     THEN <<[owner |-> mineKey, instanceId |-> fc.instanceId]>>
     ELSE <<>>

\* Guard entry with remaining > 0 in a side's bucket
guardInLedger(bucket) ==
  \E i \in 1..Len(bucket) :
    bucket[i].type = "Guard" /\ bucket[i].remaining > 0

\* mutation of the schedule check: a child fires on every tick
firesEveryTick(ab, fc, overallTurn) == TRUE

\* processFieldHits, the schedule check of a child ability: the authored
\* list, else the pre-picked turns of the snapshot, else every tick
willFire(ab, fc, overallTurn) ==
  IF ab.schedule.type = "list" THEN overallTurn \in ab.schedule.turns
  ELSE IF ab.key \in DOMAIN fc.childTurns
       THEN overallTurn \in fc.childTurns[ab.key]
       ELSE TRUE

\* processFieldHits, child abilities of one field card fired on this tick
RECURSIVE fireChildren(_, _, _, _, _)
fireChildren(abs, i, fc, mineKey, res) ==
  IF i > Len(abs) THEN res
  ELSE LET ab == abs[i]
           linked == {ab.linkedTo[j] : j \in 1..Len(ab.linkedTo)}
           primaryIdx == {j \in 1..Len(abs) : abs[j].type = "Multi-Hit"}
           primary == abs[CHOOSE j \in primaryIdx : \A k \in primaryIdx : j <= k]
           dest == IF targetsOpponent(ab.type) THEN Other(mineKey) ELSE mineKey
           entry == EntryOf(ab, getTypes(fc.instanceId))
           overallTurn == fc.turnIndex + 2
       IN IF ab.type = "Multi-Hit"
             \/ ~("attack" \in linked \/ primary.key \in linked)
             \/ ~willFire(ab, fc, overallTurn)
          THEN fireChildren(abs, i + 1, fc, mineKey, res)
          ELSE fireChildren(abs, i + 1, fc, mineKey,
                 [b |-> [res.b EXCEPT
                           ![dest] = upsertPersistentEffect(@, entry)],
                  log |-> Append(res.log,
                            UpsertEvent(res.b[dest], entry, "field")),
                  fired |-> Append(res.fired,
                              [side |-> mineKey, card |-> fc.instanceId,
                               key |-> ab.key, type |-> ab.type,
                               dest |-> dest, overallTurn |-> overallTurn])])

\* mutation of the tick: a field card stays one tick longer
keepsTurnLonger(nextRemaining) == nextRemaining >= 0

\* processFieldHits, "carry forward or expire"
carries(nextRemaining) == nextRemaining > 0

\* processFieldHits, the loop over the side's field cards.
\* res = [dmg2, updated, expired, b, upLog, hitLog, fired, prompts]
RECURSIVE fieldLoop(_, _, _, _, _, _, _)
fieldLoop(mine, i, other, mineKey, attackerBase, defenderBase, res) ==
  IF i > Len(mine) THEN res
  ELSE
    LET fc == mine[i]
        resolved == resolveTargetRef(fc, mine, other, mineKey)
        nextTurnIndex == fc.turnIndex + 1
        dnActive == fc.dnAuto
        nextRemaining == fc.turnsRemaining - 1
        types == getTypes(fc.instanceId)
        potency == CardDef(fc.instanceId).potency
        defenderDur == IF dnActive THEN 0 ELSE defenderBase.durability
        net2 == netDamage2(potency, powerStatOf(types, attackerBase),
                           attackerBase.attackPower, defenderDur,
                           powerStatOf(types, defenderBase))
        hit == [kind |-> "field", side |-> mineKey, card |-> fc.instanceId,
                guard |-> guardInLedger(res.b[Other(mineKey)]),
                bypass |-> dnActive, dodged |-> FALSE,
                potency |-> potency,
                power |-> powerStatOf(types, attackerBase),
                attackPower |-> attackerBase.attackPower,
                durability |-> defenderBase.durability,
                oppPower |-> powerStatOf(types, defenderBase),
                dmg2 |-> net2]
        abs == IF fc.hasCard THEN getAbilities(fc.instanceId) ELSE <<>>
        fired == IF \E j \in 1..Len(abs) : abs[j].type = "Multi-Hit"
                 THEN fireChildren(abs, 1, fc, mineKey,
                                   [b |-> res.b, log |-> <<>>, fired |-> <<>>])
                 ELSE [b |-> res.b, log |-> <<>>, fired |-> <<>>]
        prompted == promptsOf(fc, mine, other, mineKey)
        \* a snapshot without its card data, aimed at the character
        malformed ==
          [res EXCEPT !.updated =
             Append(@, [fc EXCEPT !.turnsRemaining =
                                    Max(0, fc.turnsRemaining - 1)]),
                      !.prompts = @ \o prompted]
        carry == [fc EXCEPT !.turnsRemaining = nextRemaining,
                            !.turnIndex = nextTurnIndex]
        next ==
          [dmg2 |-> IF resolved = "character" THEN res.dmg2 + net2
                    ELSE res.dmg2,
           updated |-> IF carries(nextRemaining) THEN Append(res.updated, carry)
                       ELSE res.updated,
           expired |-> IF carries(nextRemaining) THEN res.expired
                       ELSE Append(res.expired, fc.instanceId),
           b |-> fired.b,
           upLog |-> res.upLog \o fired.log,
           hitLog |-> IF resolved = "character" THEN Append(res.hitLog, hit)
                      ELSE res.hitLog,
           fired |-> res.fired \o fired.fired,
           prompts |-> res.prompts \o prompted]
    IN IF fc.turnsRemaining <= 0
       THEN fieldLoop(mine, i + 1, other, mineKey, attackerBase, defenderBase,
                      res)
       ELSE IF resolved = "character" /\ ~fc.hasCard
       THEN fieldLoop(mine, i + 1, other, mineKey, attackerBase, defenderBase,
                      malformed)
       ELSE fieldLoop(mine, i + 1, other, mineKey, attackerBase, defenderBase,
                      next)

\* processFieldHits
processFieldHits(sideKey, field, attackerBase, defenderBase, b) ==
  fieldLoop(field[sideKey], 1, field[Other(sideKey)], sideKey, attackerBase,
            defenderBase,
            [dmg2 |-> 0, updated |-> <<>>, expired |-> <<>>, b |-> b,
             upLog |-> <<>>, hitLog |-> <<>>, fired |-> <<>>,
             prompts |-> <<>>])

(***************************************************************************)
(* Enemy decision policy                                                   *)
(***************************************************************************)
\* enemy.aiConfig of the modelled enemy (thresholds and chance in percent)
AiConfig ==
  [cardPriority |-> [Strike |-> 2, Barrage |-> 3, Ward |-> 1, Aegis |-> 1,
                     Doom |-> 0],
   combos |-> <<[cards |-> <<"Ward", "Aegis">>, priority |-> 4]>>,
   spSkipThreshold |-> 30, defendHpThreshold |-> 50,
   weights |-> [play |-> 1, skip |-> 20, defend |-> 20],
   greedChance |-> 15]

\* cardPriority.find(...)?.priority || 0
priorityOf(iid) ==
  IF CardOf[iid] \in DOMAIN aiConfig.cardPriority
  THEN aiConfig.cardPriority[CardOf[iid]] ELSE 0

\* resolveCards: the first hand card of each listed catalog id
RECURSIVE resolveCards(_, _)
resolveCards(cardArr, hnd) ==
  IF cardArr = <<>> THEN <<>>
  ELSE LET idx == {i \in 1..Len(hnd) : CardOf[hnd[i]] = Head(cardArr)}
       IN (IF idx = {} THEN <<>>
           ELSE <<hnd[CHOOSE i \in idx : \A j \in idx : i <= j]>>)
          \o resolveCards(Tail(cardArr), hnd)

costOf(cards) == SumSeq([i \in 1..Len(cards) |-> spCostOf(cards[i])])

\* the combos.forEach loop: best = [cards, score, found]
RECURSIVE bestComboOf(_, _, _, _)
bestComboOf(combos, hnd, enemySp, best) ==
  IF combos = <<>> THEN best
  ELSE LET c == Head(combos)
           cardObjs == resolveCards(c.cards, hnd)
       IN IF Len(cardObjs) = Len(c.cards) /\ costOf(cardObjs) <= enemySp
             /\ c.priority > best.score
          THEN bestComboOf(Tail(combos), hnd, enemySp,
                 [cards |-> cardObjs, score |-> c.priority, found |-> TRUE])
          ELSE bestComboOf(Tail(combos), hnd, enemySp, best)

\* singles.sort: stable, highest card priority first
InsertByPriority(sorted, c) ==
  LET later == {j \in 1..Len(sorted) : priorityOf(sorted[j]) < priorityOf(c)}
      pos == IF later = {} THEN Len(sorted) + 1
             ELSE CHOOSE j \in later : \A k \in later : j <= k
  IN SubSeq(sorted, 1, pos - 1) \o <<c>> \o SubSeq(sorted, pos, Len(sorted))

RECURSIVE SortByPriority(_, _)
SortByPriority(cards, acc) ==
  IF cards = <<>> THEN acc
  ELSE SortByPriority(Tail(cards), InsertByPriority(acc, Head(cards)))

\* the greedy loop over singles: res = [cards, runningSp]
RECURSIVE greedyAdd(_, _, _)
greedyAdd(singles, enemySp, res) ==
  IF singles = <<>> THEN res
  ELSE LET c == Head(singles)
       IN IF res.runningSp + spCostOf(c) <= enemySp
          THEN greedyAdd(Tail(singles), enemySp,
                 [cards |-> Append(res.cards, c),
                  runningSp |-> res.runningSp + spCostOf(c)])
          ELSE greedyAdd(Tail(singles), enemySp, res)

\* chooseEnemyAction; greedy is the outcome of Math.random() < greedChance
chooseEnemyAction(st, enemySp, enemyHp2, enemyMaxHp2, hnd, greedy) ==
  LET best == bestComboOf(aiConfig.combos, hnd, enemySp,
                          [cards |-> <<>>, score |-> 0, found |-> FALSE])
      singles == SortByPriority(
                   SelectSeq(hnd, LAMBDA c : ~(best.found
                                               /\ c \in SeqToSet(best.cards))),
                   <<>>)
      play == greedyAdd(singles, enemySp,
                [cards |-> best.cards, runningSp |-> costOf(best.cards)])
      playCards == play.cards
      w == aiConfig.weights
      playScore == w.play * (best.score
                     + SumSeq([i \in 1..Len(playCards) |->
                                 priorityOf(playCards[i])]))
      \* skipScore = skipNum / skipDen, defendScore = defNum / defDen
      skipDen == aiConfig.spSkipThreshold * st.maxSp
      skipNum == IF 100 * enemySp < skipDen
                 THEN w.skip * (skipDen - 100 * enemySp) ELSE 0
      defDen == aiConfig.defendHpThreshold * enemyMaxHp2
      defNum == IF 100 * enemyHp2 < defDen
                THEN w.defend * (defDen - 100 * enemyHp2) ELSE 0
  IN IF ~best.found /\ playCards # <<>> /\ greedy
     THEN [action |-> "play", cards |-> playCards]
     ELSE IF playScore * defDen >= defNum /\ playScore * skipDen >= skipNum
     THEN [action |-> "play", cards |-> playCards]
     ELSE IF defNum * skipDen >= skipNum * defDen
     THEN [action |-> "defend", cards |-> <<>>]
     ELSE [action |-> "skip", cards |-> <<>>]

(***************************************************************************)
(* Main action: the part the player's and the enemy's play branch share    *)
(***************************************************************************)
isAttacking(iid) ==
  "Physical" \in getTypes(iid) \/ "Supernatural" \in getTypes(iid)

\* bypassGuard of a played card: per-card flag or attack-linked DN
bypassGuard(iid, attackLinked) ==
  perCard(iid).durabilityNegation
  \/ \E j \in 1..Len(attackLinked) :
       attackLinked[j].card = iid
       /\ attackLinked[j].ability.type = "Durability Negation"

\* draws that can matter: positions outside rel are fixed
Draws(n, rel) ==
  {f \in [1..n -> BOOLEAN] : \A i \in 1..n : i \notin rel => ~f[i]}

uncertain(chance1000) == chance1000 > 0 /\ chance1000 < 100000

\* what an opponent-targeting ability did to the other side
abFlags(entry, pre, shieldActive) ==
  LET ab == entry.ability
      inPending == \E j \in 1..Len(pre.pending) : pre.pending[j] = entry
  IN [adopted |-> inPending /\ ab.type \in PERSISTENT_TYPES,
      negated |-> inPending /\ ab.type = "Ability Negation" /\ ab.power > 0,
      bypass |-> ab.type = "Durability Negation" /\ isAttacking(entry.card)
                 /\ bypassGuard(entry.card, pre.attackLinked),
      idRolled |-> ab.type = "Instant Death" /\ ~shieldActive
                   /\ ab = instantDeathOf(entry.card)]

\* instant death and damage of one side's play, from the carried stats and
\* contexts (oC, tC) and the pre-damage result (pre); unshielded is the
\* pre-damage result the same draws give against no Ability Shield
playOutcome(owner, cards, bonusDef, idDraws, dodgeDraws, oC, tC, pre, unshielded) ==
  LET shield == tC.ctx.abilityShield
      \* the instant death step of the i-th played card sets the HP to 0
      idKill(i) ==
          /\ perCard(cards[i]).instantDeath
          /\ ~shield.active
          /\ roll(finalChance(instantDeathOf(cards[i]).activationChance,
                              pre.ownerCtx, tC.ctx, oC.temp.intelligence),
                  idDraws[i])
      killed == \E i \in 1..Len(cards) : idKill(i)
      p == dodgeChance(oC.temp, tC.temp, pre.ownerCtx, tC.ctx)
      hitOf(i) ==
        LET iid == cards[i]
            types == getTypes(iid)
            bypass == bypassGuard(iid, pre.attackLinked)
            guarded == tC.ctx.guard.active /\ ~bypass
            dodged == ~guarded /\ willDodge(p, dodgeDraws[i])
            defenderDurability ==
              IF bypass THEN 0 ELSE tC.temp.durability + bonusDef
        IN [kind |-> "played", side |-> owner, card |-> iid,
            guard |-> tC.ctx.guard.active, bypass |-> bypass,
            dodged |-> dodged,
            potency |-> CardDef(iid).potency,
            power |-> powerStatOf(types, oC.temp),
            attackPower |-> oC.temp.attackPower,
            durability |-> tC.temp.durability + bonusDef,
            oppPower |-> powerStatOf(types, tC.temp),
            dmg2 |-> IF guarded \/ dodged THEN 0
                     ELSE netDamage2(CardDef(iid).potency,
                                     powerStatOf(types, oC.temp),
                                     oC.temp.attackPower, defenderDurability,
                                     powerStatOf(types, tC.temp))]
      attackers == SelectSeq([i \in 1..Len(cards) |-> i],
                             LAMBDA i : isAttacking(cards[i]))
      hits == [k \in 1..Len(attackers) |-> hitOf(attackers[k])]
      oppAbs == SelectSeq(pre.queue,
                          LAMBDA e : targetsOpponent(e.ability.type))
  IN [buckets |-> pre.buckets, upLog |-> pre.upLog, negLog |-> pre.negLog,
      killed |-> killed, hits |-> hits,
      queue |-> pre.queue, trace |-> pre.trace, pending |-> pre.pending,
      idKills |-> [i \in 1..Len(cards) |-> idKill(i)],
      total2 |-> SumSeq([k \in 1..Len(hits) |-> hits[k].dmg2]),
      abLog |-> [k \in 1..Len(oppAbs) |->
                   [type |-> oppAbs[k].ability.type,
                    precedence |-> oppAbs[k].ability.precedence,
                    shield |-> shield,
                    did |-> abFlags(oppAbs[k], pre, shield.active),
                    unshielded |-> abFlags(oppAbs[k], unshielded, FALSE)]]]

\* what the pre-damage pass did with the ability e of a played card, and what
\* the ability did in this play (r is the outcome of the play)
rolled(owner, cards, r, e) ==
  LET at == {i \in 1..Len(r.queue) : r.queue[i] = e}
      pos == {i \in 1..Len(cards) : cards[i] = e.card}
  IN [side |-> owner, card |-> e.card, key |-> e.ability.key,
      type |-> e.ability.type, linkedTo |-> e.ability.linkedTo,
      precedence |-> e.ability.precedence,
      place |-> IF at = {} THEN 0 ELSE CHOOSE i \in at : TRUE,
      outcome |-> IF at = {} THEN "excluded"
                  ELSE r.trace[CHOOSE i \in at : TRUE],
      stored |-> /\ \E j \in 1..Len(r.pending) : r.pending[j] = e
                 /\ e.ability.type \in PERSISTENT_TYPES,
      negated |-> /\ \E j \in 1..Len(r.pending) : r.pending[j] = e
                  /\ e.ability.type = "Ability Negation"
                  /\ e.ability.power > 0,
      bypass |-> /\ e.ability.type = "Durability Negation"
                 /\ \E k \in 1..Len(r.hits) :
                      r.hits[k].card = e.card /\ r.hits[k].bypass,
      killed |-> /\ e.ability.type = "Instant Death"
                 /\ e.ability = instantDeathOf(e.card)
                 /\ \E i \in pos : r.idKills[i]]

\* one record per ability of the played cards
rollLogOf(owner, cards, r) ==
  [k \in 1..Len(AbilityEntries(cards)) |->
     rolled(owner, cards, r, AbilityEntries(cards)[k])]

\* the pre-damage phase of one side's play, then its outcome
preDamageAndOutcome(owner, cards, b, bonusDef, draws, idDraws, dodgeDraws, oC, tC) ==
  playOutcome(owner, cards, bonusDef, idDraws, dodgeDraws, oC, tC,
    applyAbilityPreDamagePhase(cards, owner, Other(owner), b, oC.ctx, tC.ctx,
                               oC.temp.intelligence, draws),
    applyAbilityPreDamagePhase(cards, owner, Other(owner), b, oC.ctx,
                               [tC.ctx EXCEPT !.abilityShield = NoToggle],
                               oC.temp.intelligence, draws))

\* pre-damage, instant death and damage of one side's play.
\* bonusDef is the defender's card defense bonus of this turn.
resolvePlay(owner, cards, b, st, bonusDef, draws, idDraws, dodgeDraws) ==
  preDamageAndOutcome(owner, cards, b, bonusDef, draws, idDraws, dodgeDraws,
                      Carry(b, st, owner), Carry(b, st, Other(owner)))

\* the draws of one play that can change its outcome, from the built queue
\* and the carried stats and contexts
drawsOf(cards, queue, oC, tC) ==
  LET n == Len(cards)
  IN [q |-> Draws(Len(queue),
               {i \in 1..Len(queue) :
                  uncertain(finalChance(queue[i].ability.activationChance,
                                        oC.ctx, tC.ctx,
                                        oC.temp.intelligence))}),
      id |-> Draws(n, {i \in 1..n :
                  /\ perCard(cards[i]).instantDeath
                  /\ uncertain(finalChance(
                        instantDeathOf(cards[i]).activationChance,
                        oC.ctx, tC.ctx, oC.temp.intelligence))}),
      dodge |-> Draws(n, {i \in 1..n :
                  /\ isAttacking(cards[i])
                  /\ dodgeChance(oC.temp, tC.temp, oC.ctx, tC.ctx) > 0
                  /\ dodgeChance(oC.temp, tC.temp, oC.ctx, tC.ctx) < 100})]

\* the draws of one play that can change its outcome
PlayDraws(owner, cards, b, st) ==
  drawsOf(cards, buildEffectQueue(cards), Carry(b, st, owner),
          Carry(b, st, Other(owner)))

\* the revive check made at an HP-lowering point: res = [hp2, bucket]
reviveCheck(h2, bucket, vitality) ==
  IF h2 <= 0 /\ MapHas(bucket, ReviveKey)
  THEN [hp2 |-> reviveHp2(vitality, MapGet(bucket, ReviveKey).power),
        bucket |-> MapDelete(bucket, ReviveKey)]
  ELSE [hp2 |-> h2, bucket |-> bucket]

\* the record of one HP-lowering point
RevPoint(point, side, hpAtPoint, bucketAtPoint, vitality, hpAfter, bucketAfter) ==
  [point |-> point, side |-> side, hpAtPoint |-> hpAtPoint,
   hadRevive |-> MapHas(bucketAtPoint, ReviveKey),
   power |-> IF MapHas(bucketAtPoint, ReviveKey)
             THEN MapGet(bucketAtPoint, ReviveKey).power ELSE 0,
   vitality |-> vitality, hpAfter |-> hpAfter,
   reviveLeft |-> MapHas(bucketAfter, ReviveKey)]

\* Freeze entry with remaining > 0 (playerFrozenPersist / enemyFrozenPersist)
frozenPersist(bucket) ==
  \E i \in 1..Len(bucket) :
    bucket[i].type = "Freeze" /\ bucket[i].remaining > 0

\* nothing recorded about a Freeze against a side
NoFreeze == [duration |-> 0, skipped |-> 0]

\* the record of a side after the other side's play: a Freeze adopted against
\* it starts a new record with its duration; a Freeze that left its ledger
\* otherwise (negated away) ends the record
freezeAfterPlay(rec, ups, before, after) ==
  LET adopted == {i \in 1..Len(ups) :
                    ups[i].via = "adopt" /\ ups[i].type = "Freeze"}
  IN IF adopted # {}
     THEN [duration |-> ups[CHOOSE i \in adopted : TRUE].duration,
           skipped |-> 0]
     ELSE IF frozenPersist(before) /\ ~frozenPersist(after)
          THEN NoFreeze
          ELSE rec

\* a force-skipped main action of the side is counted in its record
freezeSkipped(rec) == [rec EXCEPT !.skipped = @ + 1]

(***************************************************************************)
(* Turn orchestrator: playTurn                                             *)
(***************************************************************************)
\* mutation of the phase order: the duration tick runs before the enemy phases
afterPhaseTickEarly(p) ==
  CASE p = "load"   -> "pField"
    [] p = "pField" -> "pMain"
    [] p = "pMain"  -> "pPile"
    [] p = "pPile"  -> "tick"
    [] p = "tick"   -> "eField"
    [] p = "eField" -> "eMain"
    [] p = "eMain"  -> "ePile"
    [] p = "ePile"  -> "respond"

\* the statement order of playTurn: the position that follows a phase
afterPhase(p) ==
  CASE p = "load"   -> "pField"
    [] p = "pField" -> "pMain"
    [] p = "pMain"  -> "pPile"
    [] p = "pPile"  -> "eField"
    [] p = "eField" -> "eMain"
    [] p = "eMain"  -> "ePile"
    [] p = "ePile"  -> "tick"
    [] p = "tick"   -> "respond"

NoLogs ==
  /\ upLog' = <<>>
  /\ negLog' = <<>>
  /\ hitLog' = <<>>
  /\ revLog' = <<>>
  /\ abLog' = <<>>
  /\ tickLog' = <<>>
  /\ rollLog' = <<>>
  /\ fireLog' = <<>>
  /\ promptLog' = <<>>

\* the clients (tabs, devices) of one user that share one SavedGame
Clients == {"a", "b"}

\* no overlapping client has a request out
NoCalls == [c \in Clients |-> [status |-> "none"]]

NoChoice == [action |-> "none", cards |-> <<>>]
NoNegation == [owner |-> "none", instanceId |-> 0]

\* the subsequences of a hand, as sequences in hand order
Selections(hnd) ==
  {SelectSeq(hnd, LAMBDA c : c \in S) : S \in SUBSET SeqToSet(hnd)}

\* the request bodies the client sends
Requests ==
  LET fielded == UNION {{[owner |-> s,
                           instanceId |-> saved.onField[s][i].instanceId] :
                            i \in 1..Len(saved.onField[s])} : s \in Sides}
      \* the answers to a retarget prompt: the opposing character
      answers == {<<[owner |-> "player",
                     instanceId |-> saved.onField.player[i].instanceId,
                     targetRef |-> CharacterRef]>> :
                    i \in {j \in 1..Len(saved.onField.player) :
                             saved.onField.player[j].targetRef.kind = "field"}}
  IN {[action |-> a, selectedCards |-> sel, seed |-> sd, negationTarget |-> nt,
       retargetChoices |-> ch] :
        a \in {"play", "skip", "defend", "none"},
        sel \in Selections(saved.hand.player),
        sd \in BOOLEAN,
        nt \in {NoNegation} \cup fielded,
        ch \in {<<>>} \cup answers}

\* the client sends cards only with a play, and a negation target only with
\* a play of a card that carries Ability Negation
WellFormed(r) ==
  /\ r.action \in {"skip", "defend"} => r.selectedCards = <<>>
  /\ r.action = "play" => r.selectedCards # <<>>
  /\ r.seed => r.action \in {"none", "play"}
  /\ r.negationTarget # NoNegation =>
       \E i \in 1..Len(r.selectedCards) :
         \E j \in 1..Len(getAbilities(r.selectedCards[i])) :
           getAbilities(r.selectedCards[i])[j].type = "Ability Negation"

\* after the first request of a session the client keeps to plain requests:
\* a skip, a defend, a no-op poll, or a play of one card
FollowUp(r) ==
  /\ ~r.seed
  /\ r.negationTarget = NoNegation
  /\ \/ r.action \in {"skip", "defend"}
     \/ r.action = "none" /\ r.selectedCards = <<>>
     \/ r.action = "play" /\ Len(r.selectedCards) = 1

\* applyRetargetChoices: each choice sets the targetRef of the named field
\* card (the last one of that instance id on the side)
RECURSIVE applyRetargetChoices(_, _)
applyRetargetChoices(field, choices) ==
  IF choices = <<>> THEN field
  ELSE LET ch == Head(choices)
           side == IF ch.owner = "enemy" THEN "enemy" ELSE "player"
           at == {i \in 1..Len(field[side]) :
                    field[side][i].instanceId = ch.instanceId}
       IN IF at = {} THEN applyRetargetChoices(field, Tail(choices))
          ELSE applyRetargetChoices(
                 [field EXCEPT
                    ![side][CHOOSE i \in at : \A j \in at : j <= i].targetRef =
                      ch.targetRef],
                 Tail(choices))

\* the client that plays alone sends its next request when it holds the last
\* result; the request of an overlapping client is resolved once
Admitted ==
  \/ serving = "solo"
  \/ serving \in Clients /\ exitKind = "none"

\* playTurn, from the request to the loaded ledger and field arrays
Request ==
  /\ pc = "idle"
  /\ Admitted
  /\ turn < MaxTurns
  /\ saved.hp2.player > 0 /\ saved.hp2.enemy > 0
  /\ \E r \in Requests :
       /\ WellFormed(r)
       /\ turn > 0 => FollowUp(r)
       /\ req' = r
  /\ hp2' = saved.hp2
  /\ sp' = saved.sp
  /\ hand' = saved.hand
  /\ deck' = saved.deck
  /\ buckets' = loadActiveBuckets(saved.activeEffects)
  /\ onField' = applyRetargetChoices(
                   [s \in Sides |->
                      SubSeq(saved.onField[s], 1,
                             Min(Len(saved.onField[s]), MAX_FIELD_SLOTS))],
                   req'.retargetChoices)
  /\ buffDef' = [s \in Sides |-> 0]
  /\ eChoice' = NoChoice
  /\ phases' = <<>>
  /\ pc' = afterPhase("load")
  /\ NoLogs
  /\ UNCHANGED <<cardDb, aiConfig, frzLog, store, calls, serving, turn, stats, saved, exitKind>>

\* the response of a request that ran to a result
Result(kind, h, d, f) ==
  /\ saved' = [hp2 |-> hp2, sp |-> sp, hand |-> h, deck |-> d,
               activeEffects |-> dumpActiveBuckets(buckets), onField |-> f]
  /\ exitKind' = kind
  /\ turn' = turn + 1
  /\ pc' = "idle"

\* start of the player's turn: process existing player on-field hits
PlayerFieldTick ==
  /\ pc = "pField"
  /\ \E pf \in {processFieldHits("player", onField, stats.player,
                                  stats.enemy, buckets)} :
     \E hit2 \in {IF pf.dmg2 > 0 THEN Max(0, hp2.enemy - pf.dmg2)
                  ELSE hp2.enemy} :
     \E clamped \in {IF hit2 > hp2.enemy THEN hp2.enemy ELSE hit2} :
     \E rev \in {reviveCheck(clamped, pf.b.enemy, stats.enemy.vitality)} :
        /\ onField' = [onField EXCEPT !.player = pf.updated]
        /\ deck' = [deck EXCEPT !.player = @ \o pf.expired]
        /\ hp2' = [hp2 EXCEPT !.enemy = rev.hp2]
        /\ buckets' = [pf.b EXCEPT !.enemy = rev.bucket]
        /\ upLog' = pf.upLog
        /\ hitLog' = pf.hitLog
        /\ fireLog' = pf.fired
        /\ promptLog' = pf.prompts
        /\ revLog' = IF pf.dmg2 > 0
                     THEN <<RevPoint("pField", "enemy", clamped, pf.b.enemy,
                                     stats.enemy.vitality, rev.hp2, rev.bucket)>>
                     ELSE <<>>
  /\ negLog' = <<>>
  /\ abLog' = <<>>
  /\ tickLog' = <<>>
  /\ rollLog' = <<>>
  /\ phases' = Append(phases, "FieldTick(player)")
  /\ pc' = afterPhase("pField")
  /\ UNCHANGED <<cardDb, aiConfig, frzLog, store, calls, serving, turn, req, stats, sp, hand, saved, buffDef, eChoice, exitKind>>

IsNoop == req.action = "none" /\ req.selectedCards = <<>>
IsPlay == req.action = "play"
          \/ (req.action = "none" /\ req.selectedCards # <<>>)

\* a no-op request (no action, no selected cards) is answered at once
NoopExit ==
  /\ pc = "pMain"
  /\ IsNoop
  /\ phases' = Append(phases, "Respond")
  /\ Result("noop", hand, deck, onField)
  /\ NoLogs
  /\ UNCHANGED <<cardDb, aiConfig, frzLog, store, calls, serving, req, stats, hp2, sp, hand, deck, buckets, onField, buffDef,
                 eChoice>>

\* the player is frozen: the main action is skipped
PlayerFrozen ==
  /\ pc = "pMain"
  /\ ~IsNoop
  /\ frozenPersist(buckets.player)
  /\ frzLog' = [frzLog EXCEPT !.player = freezeSkipped(@)]
  /\ phases' = Append(phases, "MainAction(player)")
  /\ pc' = afterPhase("pMain")
  /\ NoLogs
  /\ UNCHANGED <<cardDb, aiConfig, store, calls, serving, turn, req, stats, hp2, sp, hand, deck, saved, buckets,
                 onField, buffDef, eChoice, exitKind>>

\* a play that costs more SP than the player has is rejected (status 400)
PlayerRejected ==
  /\ pc = "pMain"
  /\ ~IsNoop
  /\ ~frozenPersist(buckets.player)
  /\ IsPlay
  /\ costOf(req.selectedCards) > sp.player
  /\ hp2' = saved.hp2
  /\ sp' = saved.sp
  /\ hand' = saved.hand
  /\ deck' = saved.deck
  /\ buckets' = saved.activeEffects
  /\ onField' = saved.onField
  /\ exitKind' = "rejected"
  /\ pc' = "idle"
  /\ phases' = <<>>
  /\ NoLogs
  /\ UNCHANGED <<cardDb, aiConfig, frzLog, store, calls, serving, turn, req, stats, saved, buffDef, eChoice>>

\* schedule the player's multi-hit cards onto the field after the hit
RECURSIVE schedulePlayed(_, _, _)
schedulePlayed(cards, field, picks) ==
  IF cards = <<>> THEN field
  ELSE IF hasMultiHit(Head(cards)) /\ Len(field) < MAX_FIELD_SLOTS
       THEN schedulePlayed(Tail(cards),
                           Append(field, makeFieldCard("player", Head(cards),
                                                       picks[Head(cards)])),
                           picks)
       ELSE schedulePlayed(Tail(cards), field, picks)

\* the negationTarget step: the named field card is filtered out
removeTarget(field, nt) ==
  IF nt = NoNegation THEN field
  ELSE [field EXCEPT ![nt.owner] =
          SelectSeq(@, LAMBDA fc : fc.instanceId # nt.instanceId)]

\* the player's play: pre-damage, instant death, damage, field scheduling
PlayerPlay ==
  /\ pc = "pMain"
  /\ ~IsNoop
  /\ ~frozenPersist(buckets.player)
  /\ IsPlay
  /\ costOf(req.selectedCards) <= sp.player
  /\ LET cards == req.selectedCards
     IN \E d \in {PlayDraws("player", cards, buckets, stats)} :
        \E draws \in d.q, idDraws \in d.id, dodgeDraws \in d.dodge :
        \E r \in {resolvePlay("player", cards, buckets, stats, 0, draws,
                              idDraws, dodgeDraws)} :
        \E hpId \in {IF r.killed THEN 0 ELSE hp2.enemy} :
        \E rev1 \in {reviveCheck(hpId, r.buckets.enemy,
                                 stats.enemy.vitality)} :
        \E hpDmg \in {Max(0, rev1.hp2 - r.total2)} :
        \E rev2 \in {reviveCheck(hpDmg, rev1.bucket, stats.enemy.vitality)} :
        \E picks \in PicksFor(cards) :
             /\ buffDef' = [buffDef EXCEPT !.player =
                              @ + SumSeq([i \in 1..Len(cards) |->
                                            CardDef(cards[i]).defense])]
             /\ hp2' = [hp2 EXCEPT !.enemy = rev2.hp2]
             /\ buckets' = [r.buckets EXCEPT !.enemy = rev2.bucket]
             /\ sp' = [sp EXCEPT !.player = @ - costOf(cards)]
             /\ onField' = [removeTarget(onField, req.negationTarget) EXCEPT
                              !.player = schedulePlayed(cards, @, picks)]
             /\ frzLog' = [frzLog EXCEPT !.enemy =
                             freezeAfterPlay(@, r.upLog, buckets.enemy,
                                             rev2.bucket)]
             /\ upLog' = r.upLog
             /\ negLog' = r.negLog
             /\ hitLog' = r.hits
             /\ abLog' = r.abLog
             /\ rollLog' = rollLogOf("player", cards, r)
             /\ tickLog' = <<>> /\ fireLog' = <<>> /\ promptLog' = <<>>
             /\ revLog' =
                  (IF r.killed
                   THEN <<RevPoint("pInstantDeath", "enemy", hpId,
                                   r.buckets.enemy, stats.enemy.vitality,
                                   rev1.hp2, rev1.bucket)>>
                   ELSE <<>>)
                  \o <<RevPoint("pDamage", "enemy", hpDmg, rev1.bucket,
                                stats.enemy.vitality, rev2.hp2, rev2.bucket)>>
  /\ phases' = Append(phases, "MainAction(player)")
  /\ pc' = afterPhase("pMain")
  /\ UNCHANGED <<cardDb, aiConfig, store, calls, serving, turn, req, stats, hand, deck, saved, eChoice, exitKind>>

\* skip: +2 SP; defend: +1 SP
PlayerSkipDefend ==
  /\ pc = "pMain"
  /\ ~IsNoop
  /\ ~frozenPersist(buckets.player)
  /\ req.action \in {"skip", "defend"}
  /\ sp' = [sp EXCEPT !.player =
              Min(stats.player.maxSp,
                  @ + (IF req.action = "skip" THEN 2 ELSE 1))]
  /\ phases' = Append(phases, "MainAction(player)")
  /\ pc' = afterPhase("pMain")
  /\ NoLogs
  /\ UNCHANGED <<cardDb, aiConfig, frzLog, store, calls, serving, turn, req, stats, hp2, hand, deck, saved, buckets, onField,
                 buffDef, eChoice, exitKind>>

\* the draw loop of the player's pile update
RECURSIVE drawPlayer(_, _)
drawPlayer(h, d) ==
  IF Len(h) < HAND_SIZE /\ d # <<>>
  THEN drawPlayer(Append(h, Head(d)), Tail(d))
  ELSE [hand |-> h, deck |-> d]

\* RETURN CARDS LOGIC, draw, and the second scheduling of multi-hit cards
playerPile(picks) ==
  LET played == SelectSeq(hand.player,
                          LAMBDA c : c \in SeqToSet(req.selectedCards))
      playedNoMH == SelectSeq(played, LAMBDA c : ~hasMultiHit(c))
      playedWithMH == IF req.action = "play"
                      THEN SelectSeq(played, LAMBDA c : hasMultiHit(c))
                      ELSE <<>>
      h == CASE req.action = "play" ->
                  SelectSeq(hand.player,
                            LAMBDA c : c \notin SeqToSet(req.selectedCards))
             [] req.action = "skip" -> <<>>
             [] OTHER -> hand.player
      d == CASE req.action = "play" -> deck.player \o playedNoMH
             [] req.action = "skip" -> deck.player \o hand.player
             [] OTHER -> deck.player
      drawn == drawPlayer(h, d)
      existingIds == {onField.player[i].instanceId :
                        i \in 1..Len(onField.player)}
      fresh == SelectSeq(playedWithMH, LAMBDA c : c \notin existingIds)
      capacity == Max(0, MAX_FIELD_SLOTS - Len(onField.player))
      toAdd == SubSeq(fresh, 1, Min(Len(fresh), capacity))
  IN [hand |-> drawn.hand, deck |-> drawn.deck,
      field |-> onField.player
                \o [i \in 1..Len(toAdd) |->
                      makeFieldCard("player", toAdd[i], picks[toAdd[i]])]]

\* the player's pile update; the turn goes on to the enemy
PlayerPile ==
  /\ pc = "pPile"
  /\ ~req.seed
  /\ \E picks \in PicksFor(req.selectedCards) :
     \E pile \in {playerPile(picks)} :
       /\ hand' = [hand EXCEPT !.player = pile.hand]
       /\ deck' = [deck EXCEPT !.player = pile.deck]
       /\ onField' = [onField EXCEPT !.player = pile.field]
  /\ phases' = Append(phases, "PileUpdate(player)")
  /\ pc' = afterPhase("pPile")
  /\ NoLogs
  /\ UNCHANGED <<cardDb, aiConfig, frzLog, store, calls, serving, turn, req, stats, hp2, sp, saved, buckets, buffDef, eChoice,
                 exitKind>>

\* the player's pile update of a seed request, answered before the enemy acts
SeedExit ==
  /\ pc = "pPile"
  /\ req.seed
  /\ \E picks \in PicksFor(req.selectedCards) :
     \E pile \in {playerPile(picks)} :
       /\ hand' = [hand EXCEPT !.player = pile.hand]
       /\ deck' = [deck EXCEPT !.player = pile.deck]
       /\ onField' = [onField EXCEPT !.player = pile.field]
  /\ phases' = phases \o <<"PileUpdate(player)", "Respond">>
  /\ Result("seed", hand', deck', onField')
  /\ NoLogs
  /\ UNCHANGED <<cardDb, aiConfig, frzLog, store, calls, serving, req, stats, hp2, sp, buckets, buffDef, eChoice>>

\* mutation of the guard: the enemy phases run whatever the enemy's HP is
enemyActsAlways(enemyHp2) == TRUE

\* the guard of the enemy phases: if (enemyHp > 0)
enemyAlive(enemyHp2) == enemyHp2 > 0

\* Enemy on-field activations, run only for a living enemy
EnemyFieldTick ==
  /\ pc = "eField"
  /\ enemyAlive(hp2.enemy)
  /\ \E ef \in {processFieldHits("enemy", onField, stats.enemy,
                  [stats.player EXCEPT !.durability = @ + buffDef.player],
                  buckets)} :
     \E hit2 \in {Max(0, hp2.player - ef.dmg2)} :
     \E rev \in {IF ef.dmg2 > 0
                 THEN reviveCheck(hit2, ef.b.player, stats.player.vitality)
                 ELSE [hp2 |-> hp2.player, bucket |-> ef.b.player]} :
     \E clamped \in {IF rev.hp2 > hp2.player THEN hp2.player ELSE rev.hp2} :
        /\ onField' = [onField EXCEPT !.enemy = ef.updated]
        /\ deck' = [deck EXCEPT !.enemy = @ \o ef.expired]
        /\ hp2' = [hp2 EXCEPT !.player = clamped]
        /\ buckets' = [ef.b EXCEPT !.player = rev.bucket]
        /\ upLog' = ef.upLog
        /\ hitLog' = ef.hitLog
        /\ fireLog' = ef.fired
        /\ promptLog' = ef.prompts
        /\ revLog' = IF ef.dmg2 > 0
                     THEN <<RevPoint("eField", "player", hit2, ef.b.player,
                                     stats.player.vitality, clamped,
                                     rev.bucket)>>
                     ELSE <<>>
  /\ negLog' = <<>>
  /\ abLog' = <<>>
  /\ tickLog' = <<>>
  /\ rollLog' = <<>>
  /\ buffDef' = [buffDef EXCEPT !.enemy = 0]
  /\ phases' = Append(phases, "FieldTick(enemy)")
  /\ pc' = afterPhase("eField")
  /\ UNCHANGED <<cardDb, aiConfig, frzLog, store, calls, serving, turn, req, stats, sp, hand, saved, eChoice, exitKind>>

\* a dead enemy has no field tick, no main action and no pile update
EnemySkipped ==
  /\ pc = "eField"
  /\ ~enemyAlive(hp2.enemy)
  /\ buffDef' = [buffDef EXCEPT !.enemy = 0]
  /\ pc' = afterPhase("ePile")
  /\ NoLogs
  /\ UNCHANGED <<cardDb, aiConfig, frzLog, store, calls, serving, turn, req, stats, hp2, sp, hand, deck, saved, buckets,
                 onField, eChoice, exitKind, phases>>

\* the enemy's action: frozen, or what the decision policy returns
enemyDecision(greedy) ==
  IF frozenPersist(buckets.enemy)
  THEN [action |-> "frozen", cards |-> <<>>]
  ELSE chooseEnemyAction(stats.enemy, sp.enemy, hp2.enemy,
                         stats.enemy.vitality * 100 * 2, hand.enemy, greedy)

\* schedule enemy Multi-Hit cards onto field (the snapshot is pushed twice)
RECURSIVE scheduleEnemy(_, _, _, _)
scheduleEnemy(cards, field, existingE, picks) ==
  IF cards = <<>> THEN field
  ELSE LET c == Head(cards)
       IN IF ~hasMultiHit(c)
          THEN scheduleEnemy(Tail(cards), field, existingE, picks)
          ELSE IF Len(field) >= MAX_FIELD_SLOTS THEN field
          ELSE IF c \in existingE
          THEN scheduleEnemy(Tail(cards), field, existingE, picks)
          ELSE scheduleEnemy(Tail(cards),
                 field \o <<makeFieldCard("enemy", c, picks[c]),
                            makeFieldCard("enemy", c, picks[c])>>,
                 existingE \cup {c}, picks)

\* the enemy's play: pre-damage, instant death, damage, field scheduling
EnemyPlay ==
  /\ pc = "eMain"
  /\ \E greedy \in BOOLEAN :
     \E choice \in {enemyDecision(greedy)} :
     \E cards \in {choice.cards} :
          /\ choice.action = "play"
          /\ cards # <<>>
          /\ eChoice' = choice
          /\ \E d \in {PlayDraws("enemy", cards, buckets, stats)} :
             \E draws \in d.q, idDraws \in d.id, dodgeDraws \in d.dodge :
             \E r \in {resolvePlay("enemy", cards, buckets, stats,
                                   buffDef.player, draws, idDraws,
                                   dodgeDraws)} :
             \E hpId \in {IF r.killed THEN 0 ELSE hp2.player} :
             \E rev1 \in {reviveCheck(hpId, r.buckets.player,
                                      stats.player.vitality)} :
             \E hpDmg \in {Max(0, rev1.hp2 - r.total2)} :
             \E picks \in PicksFor(cards) :
                  /\ buffDef' = [buffDef EXCEPT !.enemy =
                                   @ + SumSeq([i \in 1..Len(cards) |->
                                                 CardDef(cards[i]).defense])]
                  /\ hp2' = [hp2 EXCEPT !.player = hpDmg]
                  /\ buckets' = [r.buckets EXCEPT !.player = rev1.bucket]
                  /\ sp' = [sp EXCEPT !.enemy = @ - costOf(cards)]
                  /\ onField' = [onField EXCEPT !.enemy =
                       scheduleEnemy(cards, @,
                         {onField.enemy[i].instanceId :
                            i \in 1..Len(onField.enemy)}, picks)]
                  /\ frzLog' = [frzLog EXCEPT !.player =
                                  freezeAfterPlay(@, r.upLog,
                                                  buckets.player,
                                                  rev1.bucket)]
                  /\ upLog' = r.upLog
                  /\ negLog' = r.negLog
                  /\ hitLog' = r.hits
                  /\ abLog' = r.abLog
                  /\ rollLog' = rollLogOf("enemy", cards, r)
                  /\ tickLog' = <<>> /\ fireLog' = <<>> /\ promptLog' = <<>>
                  /\ revLog' =
                       (IF r.killed
                        THEN <<RevPoint("eInstantDeath", "player", hpId,
                                        r.buckets.player,
                                        stats.player.vitality, rev1.hp2,
                                        rev1.bucket)>>
                        ELSE <<>>)
                       \o <<RevPoint("eDamage", "player", hpDmg, rev1.bucket,
                                     stats.player.vitality, hpDmg,
                                     rev1.bucket)>>
  /\ phases' = Append(phases, "MainAction(enemy)")
  /\ pc' = afterPhase("eMain")
  /\ UNCHANGED <<cardDb, aiConfig, store, calls, serving, turn, req, stats, hand, deck, saved, exitKind>>

\* the enemy is frozen, skips, defends, or has nothing to play
EnemyNoPlay ==
  /\ pc = "eMain"
  /\ \E greedy \in BOOLEAN :
     \E choice \in {enemyDecision(greedy)} :
          /\ ~(choice.action = "play" /\ choice.cards # <<>>)
          /\ eChoice' = choice
          /\ sp' = [sp EXCEPT !.enemy =
                      CASE choice.action = "skip" ->
                             Min(stats.enemy.maxSp, @ + 2)
                        [] choice.action = "defend" ->
                             Min(stats.enemy.maxSp, @ + 1)
                        [] OTHER -> @]
          /\ frzLog' = IF choice.action = "frozen"
                       THEN [frzLog EXCEPT !.enemy = freezeSkipped(@)]
                       ELSE frzLog
  /\ phases' = Append(phases, "MainAction(enemy)")
  /\ pc' = afterPhase("eMain")
  /\ NoLogs
  /\ UNCHANGED <<cardDb, aiConfig, store, calls, serving, turn, req, stats, hp2, hand, deck, saved, buckets, onField,
                 buffDef, exitKind>>

\* drawUpToHand with nothing played and an empty discard pile
RECURSIVE drawUpToHand(_, _)
drawUpToHand(newHand, dk) ==
  IF Len(newHand) < HAND_SIZE /\ dk # <<>>
  THEN IF Head(dk) \in SeqToSet(newHand)
       THEN drawUpToHand(newHand, Tail(dk))
       ELSE drawUpToHand(Append(newHand, Head(dk)), Tail(dk))
  ELSE [hand |-> newHand, deck |-> dk]

\* the enemy's pile update of each branch
EnemyPile ==
  /\ pc = "ePile"
  /\ LET played == SeqToSet(eChoice.cards)
         toDeckE == SelectSeq(hand.enemy,
                      LAMBDA c : c \in played /\ ~hasMultiHit(c))
         res ==
           CASE eChoice.action = "play" /\ eChoice.cards # <<>> ->
                  drawUpToHand(SelectSeq(hand.enemy, LAMBDA c : c \notin played),
                               deck.enemy \o toDeckE)
             [] eChoice.action \in {"frozen", "skip", "defend"} ->
                  drawUpToHand(<<>>, deck.enemy \o hand.enemy)
             [] OTHER -> [hand |-> hand.enemy, deck |-> deck.enemy]
     IN /\ hand' = [hand EXCEPT !.enemy = res.hand]
        /\ deck' = [deck EXCEPT !.enemy = res.deck]
  /\ phases' = Append(phases, "PileUpdate(enemy)")
  /\ pc' = afterPhase("ePile")
  /\ NoLogs
  /\ UNCHANGED <<cardDb, aiConfig, frzLog, store, calls, serving, turn, req, stats, hp2, sp, saved, buckets, onField, buffDef,
                 eChoice, exitKind>>

\* clamp vital stats, then the duration tick of both buckets
DurationTick ==
  /\ pc = "tick"
  /\ hp2' = [s \in Sides |-> Max(0, hp2[s])]
  /\ sp' = [s \in Sides |-> Max(0, sp[s])]
  /\ buckets' = [s \in Sides |-> tickBuckets(buckets[s], 1)]
  /\ phases' = Append(phases, "DurationTick")
  /\ pc' = afterPhase("tick")
  /\ upLog' = <<>> /\ negLog' = <<>> /\ hitLog' = <<>>
  /\ revLog' = <<>> /\ abLog' = <<>>
  /\ rollLog' = <<>> /\ fireLog' = <<>> /\ promptLog' = <<>>
  /\ tickLog' = <<buckets>>
  /\ UNCHANGED <<cardDb, aiConfig, frzLog, store, calls, serving, turn, req, stats, hand, deck, saved, onField, buffDef,
                 eChoice, exitKind>>

\* the response of a full turn
Respond ==
  /\ pc = "respond"
  /\ phases' = Append(phases, "Respond")
  /\ Result("full", hand, deck, onField)
  /\ NoLogs
  /\ UNCHANGED <<cardDb, aiConfig, frzLog, store, calls, serving, req, stats, hp2, sp, hand, deck, buckets, onField, buffDef,
                 eChoice>>

(***************************************************************************)
(* Initial states: the saved snapshots the first request is sent from      *)
(***************************************************************************)
PlayerStats ==
  [attackPower |-> 10, physicalPower |-> 8, supernaturalPower |-> 6,
   durability |-> 4, vitality |-> 1, intelligence |-> 100, speed |-> 5,
   maxSp |-> 5]

EnemyStats ==
  [attackPower |-> 5, physicalPower |-> 6, supernaturalPower |-> 4,
   durability |-> 4, vitality |-> 2, intelligence |-> 0, speed |-> 25,
   maxSp |-> 5]

\* a field card as makeFieldCard creates it with the sampled turns pick,
\* after ti ticks
FieldedWith(owner, iid, ti, pick) ==
  [makeFieldCard(owner, iid, pick) EXCEPT !.turnsRemaining = @ - ti,
                                          !.turnIndex = ti]

\* a field card as makeFieldCard creates it, after ti ticks
Fielded(owner, iid, ti) == FieldedWith(owner, iid, ti, NoPicks)

\* a field card retargeted (retargetChoices) at the field card iid of a side
Aimed(fc, side, iid) ==
  [fc EXCEPT !.targetRef = [kind |-> "field", side |-> side,
                            instanceId |-> iid]]

\* a field card echoed without its card data
Stripped(fc) == [fc EXCEPT !.hasCard = FALSE]

\* a fresh run: full HP, empty ledger, empty field
Fresh ==
  [hp2 |-> [player |-> 200, enemy |-> 400],
   sp |-> [player |-> 3, enemy |-> 3],
   hand |-> [player |-> <<1, 2, 3>>, enemy |-> <<11, 12, 13>>],
   deck |-> [player |-> <<4, 5, 7>>, enemy |-> <<14, 15>>],
   activeEffects |-> [player |-> <<>>, enemy |-> <<>>],
   onField |-> [player |-> <<>>, enemy |-> <<>>]]

\* a run in progress: standing effects on both sides, one field card each
Standing ==
  [hp2 |-> [player |-> 60, enemy |-> 100],
   sp |-> [player |-> 2, enemy |-> 3],
   hand |-> [player |-> <<3, 4, 7>>, enemy |-> <<11, 13, 14>>],
   deck |-> [player |-> <<1, 5>>, enemy |-> <<12, 15>>],
   activeEffects |->
     [player |-> <<Eff("Stats Up", "supernaturalPower", 1, 1, 2),
                   Eff("Revive", NoTarget, 50, 2, 2),
                   Eff("Ability Shield", NoTarget, 0, 2, 2)>>,
      enemy |-> <<Eff("Stats Up", "attackPower", 2, 6, 1),
                  Eff("Guard", NoTarget, 0, 5, 2),
                  Eff("Revive", NoTarget, 50, 2, 3),
                  Eff("Ability Shield", NoTarget, 0, 4, 2)>>],
   onField |-> [player |-> <<Fielded("player", 2, 0)>>,
                enemy |-> <<Fielded("enemy", 16, 1)>>]]

\* a run in progress: two field cards each, the player close to death, the
\* enemy shielded; the echoed player ledger lists Guard twice
Crowded ==
  [hp2 |-> [player |-> 20, enemy |-> 400],
   sp |-> [player |-> 3, enemy |-> 4],
   hand |-> [player |-> <<2, 6, 5>>, enemy |-> <<12, 11, 13>>],
   deck |-> [player |-> <<4, 1>>, enemy |-> <<14>>],
   activeEffects |->
     [player |-> <<Eff("Guard", NoTarget, 0, 3, 1),
                   Eff("Revive", NoTarget, 50, 2, 2),
                   Eff("Guard", NoTarget, 0, 1, 2)>>,
      enemy |-> <<Eff("Ability Shield", NoTarget, 0, 4, 2)>>],
   onField |-> [player |-> <<Fielded("player", 8, 0),
                             Fielded("player", 10, 0)>>,
                enemy |-> <<Fielded("enemy", 16, 0),
                            Fielded("enemy", 17, 0)>>]]

\* a run in progress: both sides frozen, the player's freeze about to lapse,
\* the player's attack power lowered below 0
Stunned ==
  [hp2 |-> [player |-> 120, enemy |-> 300],
   sp |-> [player |-> 2, enemy |-> 2],
   hand |-> [player |-> <<9, 1, 6>>, enemy |-> <<11, 15, 13>>],
   deck |-> [player |-> <<5>>, enemy |-> <<14>>],
   activeEffects |->
     [player |-> <<Eff("Freeze", NoTarget, 0, 2, 1),
                   Eff("Stats Down", "attackPower", 30, 2, 3)>>,
      enemy |-> <<Eff("Freeze", NoTarget, 0, 2, 2)>>],
   onField |-> [player |-> <<>>, enemy |-> <<>>]]

\* a run in progress: the enemy's field is full and its hand holds a
\* multi-hit card
Packed ==
  [hp2 |-> [player |-> 200, enemy |-> 400],
   sp |-> [player |-> 1, enemy |-> 3],
   hand |-> [player |-> <<1>>, enemy |-> <<12, 11, 13>>],
   deck |-> [player |-> <<7>>, enemy |-> <<14, 15>>],
   activeEffects |-> [player |-> <<>>, enemy |-> <<>>],
   onField |-> [player |-> <<>>,
                enemy |-> <<Fielded("enemy", 16, 0),
                            Fielded("enemy", 17, 0),
                            Fielded("enemy", 18, 0)>>]]

\* a run in progress: field cards of each targeting mode whose field
\* target has left the field, and an enemy field card echoed without its
\* card data
Hunted ==
  [hp2 |-> [player |-> 200, enemy |-> 400],
   sp |-> [player |-> 3, enemy |-> 3],
   hand |-> [player |-> <<23>>, enemy |-> <<11, 13, 14>>],
   deck |-> [player |-> <<1>>, enemy |-> <<15>>],
   activeEffects |-> [player |-> <<>>, enemy |-> <<>>],
   onField |->
     [player |-> <<Aimed(Fielded("player", 25, 0), "enemy", 16),
                   Aimed(Fielded("player", 20, 0), "enemy", 16)>>,
      enemy |-> <<Aimed(FieldedWith("enemy", 24, 0, "su" :> {3}),
                        "player", 10),
                  Stripped(Fielded("enemy", 17, 0))>>]]

\* a fresh run whose hand holds linked abilities and an ability that is
\* never rolled
Hexed ==
  [hp2 |-> [player |-> 200, enemy |-> 400],
   sp |-> [player |-> 3, enemy |-> 3],
   hand |-> [player |-> <<4, 22, 21>>, enemy |-> <<11, 12, 13>>],
   deck |-> [player |-> <<>>, enemy |-> <<14, 15>>],
   activeEffects |-> [player |-> <<>>, enemy |-> <<>>],
   onField |-> [player |-> <<>>, enemy |-> <<>>]]

\* the same hand against an enemy behind an Ability Shield
HexedShielded ==
  [Hexed EXCEPT !.activeEffects.enemy =
                   <<Eff("Ability Shield", NoTarget, 0, 3, 2)>>]

\* a fresh run in which each side holds a card with a Freeze ability, the
\* enemy with the SP of one play
Chilled ==
  [hp2 |-> [player |-> 200, enemy |-> 400],
   sp |-> [player |-> 3, enemy |-> 1],
   hand |-> [player |-> <<9>>, enemy |-> <<27>>],
   deck |-> [player |-> <<1>>, enemy |-> <<11>>],
   activeEffects |-> [player |-> <<>>, enemy |-> <<>>],
   onField |-> [player |-> <<>>, enemy |-> <<>>]]

Scenarios ==
  {Fresh, Standing, Crowded, Stunned, Packed, Hunted, Hexed, HexedShielded,
   Chilled}

Init ==
  /\ cardDb = Catalog
  /\ aiConfig = AiConfig
  /\ frzLog = [s \in Sides |-> NoFreeze]
  /\ saved \in Scenarios
  /\ pc = "idle"
  /\ turn = 0
  /\ req = [action |-> "none", selectedCards |-> <<>>, seed |-> FALSE,
            negationTarget |-> NoNegation, retargetChoices |-> <<>>]
  /\ stats = [player |-> PlayerStats, enemy |-> EnemyStats]
  /\ hp2 = saved.hp2
  /\ sp = saved.sp
  /\ hand = saved.hand
  /\ deck = saved.deck
  /\ buckets = saved.activeEffects
  /\ onField = saved.onField
  /\ buffDef = [s \in Sides |-> 0]
  /\ eChoice = NoChoice
  /\ exitKind = "none"
  /\ phases = <<>>
  /\ upLog = <<>>
  /\ negLog = <<>>
  /\ hitLog = <<>>
  /\ revLog = <<>>
  /\ abLog = <<>>
  /\ tickLog = <<>>
  /\ rollLog = <<>>
  /\ fireLog = <<>>
  /\ promptLog = <<>>
  /\ store = saved
  /\ calls = NoCalls
  /\ serving = "solo"

Next ==
  \/ Request
  \/ PlayerFieldTick
  \/ NoopExit
  \/ PlayerFrozen
  \/ PlayerRejected
  \/ PlayerPlay
  \/ PlayerSkipDefend
  \/ PlayerPile
  \/ SeedExit
  \/ EnemyFieldTick
  \/ EnemySkipped
  \/ EnemyPlay
  \/ EnemyNoPlay
  \/ EnemyPile
  \/ DurationTick
  \/ Respond

Spec == Init /\ [][Next]_vars


(***************************************************************************)
(* Overlapping requests of one user.  playTurn keeps its whole state in    *)
(* locals of the call and reads the prior state from the request body, so  *)
(* the steps of two calls in flight do not touch each other's state: the   *)
(* handler is run for one call at a time here, while the calls overlap     *)
(* from the moment the client reads the SavedGame to the moment it saves   *)
(* the result.                                                             *)
(***************************************************************************)
\* mutation of saveState: the write is dropped when the SavedGame is no
\* longer the snapshot the turn was resolved from
saveStateIfCurrent(savedGame, call) ==
  IF savedGame = call.snap THEN call.result ELSE savedGame

\* saveState: the stored document takes every field of the posted game data
saveState(savedGame, call) == call.result

\* loadState: the client reads the SavedGame it will send as the prior state
Issue ==
  /\ \E c \in Clients :
       /\ calls[c].status = "none"
       /\ calls' = [calls EXCEPT
                      ![c] = [status |-> "issued", snap |-> store,
                              result |-> store]]
  /\ UNCHANGED <<cardDb, aiConfig, frzLog, pc, turn, req, stats, hp2, sp, hand, deck, saved, buckets,
                 onField, buffDef, eChoice, exitKind, phases, upLog, negLog,
                 hitLog, revLog, abLog, tickLog, rollLog,
                 fireLog, promptLog, store, serving>>

\* the request of client c reaches playTurn with the state c read
BeginServe ==
  /\ pc = "idle"
  /\ serving = "none"
  /\ \E c \in Clients :
       /\ calls[c].status = "issued"
       /\ serving' = c
       /\ saved' = calls[c].snap
  /\ exitKind' = "none"
  /\ UNCHANGED <<cardDb, aiConfig, frzLog, pc, turn, req, stats, hp2, sp, hand, deck, buckets, onField,
                 buffDef, eChoice, phases, upLog, negLog, hitLog, revLog,
                 abLog, tickLog, rollLog, fireLog, promptLog, store, calls>>

\* the response reaches the client: a turn result, or the rejection
EndServe ==
  /\ pc = "idle"
  /\ serving \in Clients
  /\ exitKind # "none"
  /\ calls' = [calls EXCEPT
                 ![serving] = [status |-> IF exitKind = "rejected"
                                          THEN "rejected" ELSE "returned",
                               snap |-> @.snap, result |-> saved]]
  /\ serving' = "none"
  /\ UNCHANGED <<cardDb, aiConfig, frzLog, pc, turn, req, stats, hp2, sp, hand, deck, saved, buckets,
                 onField, buffDef, eChoice, exitKind, phases, upLog, negLog,
                 hitLog, revLog, abLog, tickLog, rollLog,
                 fireLog, promptLog, store>>

\* the client posts the turn result it received to saveState
Persist ==
  /\ \E c \in Clients :
       /\ calls[c].status = "returned"
       /\ store' = saveState(store, calls[c])
       /\ calls' = [calls EXCEPT ![c].status = "persisted"]
  /\ UNCHANGED <<cardDb, aiConfig, frzLog, pc, turn, req, stats, hp2, sp, hand, deck, saved, buckets,
                 onField, buffDef, eChoice, exitKind, phases, upLog, negLog,
                 hitLog, revLog, abLog, tickLog, rollLog,
                 fireLog, promptLog, serving>>

InitConc ==
  /\ cardDb = Catalog
  /\ aiConfig = AiConfig
  /\ frzLog = [s \in Sides |-> NoFreeze]
  /\ saved \in Scenarios
  /\ pc = "idle"
  /\ turn = 0
  /\ req = [action |-> "none", selectedCards |-> <<>>, seed |-> FALSE,
            negationTarget |-> NoNegation, retargetChoices |-> <<>>]
  /\ stats = [player |-> PlayerStats, enemy |-> EnemyStats]
  /\ hp2 = saved.hp2
  /\ sp = saved.sp
  /\ hand = saved.hand
  /\ deck = saved.deck
  /\ buckets = saved.activeEffects
  /\ onField = saved.onField
  /\ buffDef = [s \in Sides |-> 0]
  /\ eChoice = NoChoice
  /\ exitKind = "none"
  /\ phases = <<>>
  /\ upLog = <<>>
  /\ negLog = <<>>
  /\ hitLog = <<>>
  /\ revLog = <<>>
  /\ abLog = <<>>
  /\ tickLog = <<>>
  /\ rollLog = <<>>
  /\ fireLog = <<>>
  /\ promptLog = <<>>
  /\ store = saved
  /\ calls = NoCalls
  /\ serving = "none"

NextConc ==
  \/ Issue
  \/ BeginServe
  \/ Request
  \/ PlayerFieldTick
  \/ NoopExit
  \/ PlayerFrozen
  \/ PlayerRejected
  \/ PlayerPlay
  \/ PlayerSkipDefend
  \/ PlayerPile
  \/ SeedExit
  \/ EnemyFieldTick
  \/ EnemySkipped
  \/ EnemyPlay
  \/ EnemyNoPlay
  \/ EnemyPile
  \/ DurationTick
  \/ Respond
  \/ EndServe
  \/ Persist

SpecConc == InitConc /\ [][NextConc]_vars

(***************************************************************************)
(* chooseEnemyAction on its own: the decision for an aiConfig, a hand, an  *)
(* SP and an HP, then the payment of the play                              *)
(***************************************************************************)
MaxAiSp == 3

\* aiConfig documents: no combo, a combo of priority 0, a combo that lists
\* one card id twice, and two combos of different priority
AiConfigs ==
  {AiConfig,
   [AiConfig EXCEPT !.combos = <<>>],
   [AiConfig EXCEPT !.combos =
      <<[cards |-> <<"Ward", "Aegis">>, priority |-> 0]>>],
   [AiConfig EXCEPT !.combos =
      <<[cards |-> <<"Strike", "Strike">>, priority |-> 5]>>],
   [AiConfig EXCEPT !.combos =
      <<[cards |-> <<"Strike", "Ward">>, priority |-> 2],
        [cards |-> <<"Ward", "Aegis">>, priority |-> 4]>>]}

\* enemy hands
AiHands ==
  {<<11, 13, 14>>, <<11, 26, 13>>, <<11, 12, 15>>, <<13, 14, 15>>, <<12>>}

InitAi ==
  /\ cardDb = Catalog
  /\ aiConfig \in AiConfigs
  /\ frzLog = [s \in Sides |-> NoFreeze]
  /\ saved = Fresh
  /\ pc = "ai"
  /\ turn = 0
  /\ req = [action |-> "none", selectedCards |-> <<>>, seed |-> FALSE,
            negationTarget |-> NoNegation, retargetChoices |-> <<>>]
  /\ stats = [player |-> PlayerStats, enemy |-> EnemyStats]
  /\ \E e \in {40, 400} : hp2 = [saved.hp2 EXCEPT !.enemy = e]
  /\ \E s \in 0..MaxAiSp : sp = [saved.sp EXCEPT !.enemy = s]
  /\ \E h \in AiHands : hand = [saved.hand EXCEPT !.enemy = h]
  /\ deck = saved.deck
  /\ buckets = saved.activeEffects
  /\ onField = saved.onField
  /\ buffDef = [s \in Sides |-> 0]
  /\ eChoice = NoChoice
  /\ exitKind = "none"
  /\ phases = <<>>
  /\ upLog = <<>>
  /\ negLog = <<>>
  /\ hitLog = <<>>
  /\ revLog = <<>>
  /\ abLog = <<>>
  /\ tickLog = <<>>
  /\ rollLog = <<>>
  /\ fireLog = <<>>
  /\ promptLog = <<>>
  /\ store = saved
  /\ calls = NoCalls
  /\ serving = "solo"

\* chooseEnemyAction as playTurn calls it
AiDecide ==
  /\ pc = "ai"
  /\ \E greedy \in BOOLEAN :
       eChoice' = chooseEnemyAction(stats.enemy, sp.enemy, hp2.enemy,
                                    stats.enemy.vitality * 100 * 2,
                                    hand.enemy, greedy)
  /\ pc' = "aiDecided"
  /\ UNCHANGED <<cardDb, aiConfig, frzLog, turn, req, stats, hp2, sp, hand, deck,
                 saved, buckets, onField, buffDef, exitKind, phases, upLog,
                 negLog, hitLog, revLog, abLog, tickLog, rollLog, fireLog,
                 promptLog, store, calls, serving>>

\* playTurn spends the enemy's SP on the cards of the play
AiSpend ==
  /\ pc = "aiDecided"
  /\ eChoice.action = "play"
  /\ eChoice.cards # <<>>
  /\ sp' = [sp EXCEPT !.enemy = @ - costOf(eChoice.cards)]
  /\ pc' = "aiSpent"
  /\ UNCHANGED <<cardDb, aiConfig, frzLog, turn, req, stats, hp2, hand, deck, saved,
                 buckets, onField, buffDef, eChoice, exitKind, phases, upLog,
                 negLog, hitLog, revLog, abLog, tickLog, rollLog, fireLog,
                 promptLog, store, calls, serving>>

NextAi ==
  \/ AiDecide
  \/ AiSpend

SpecAi == InitAi /\ [][NextAi]_vars

TypeOK ==
  /\ pc \in {"idle", "pField", "pMain", "pPile", "eField", "eMain", "ePile",
             "tick", "respond"}
  /\ turn \in 0..MaxTurns

(***************************************************************************)
(* Properties                                                              *)
(***************************************************************************)
\* at most one entry per (type, target) pair
Unique(bucket) ==
  \A i, j \in 1..Len(bucket) : KeyOf(bucket[i]) = KeyOf(bucket[j]) => i = j

\* the request in hand ran to a result (full turn, seed exit or no-op exit)
AtResult == pc = "idle" /\ exitKind \in {"full", "seed", "noop"}

\* C1: no stacking. Every upsert of this step (pre-damage adoption or field
\* child firing) into a bucket that already held the (type, target) pair
\* leaves remaining = max(new duration, 0), whatever the old remaining was.
C1_NoStacking ==
  \A i \in 1..Len(upLog) :
    upLog[i].existed => upLog[i].newRemaining = Max(upLog[i].duration, 0)

\* C1 case: a pre-damage adoption refreshes an entry whose old remaining
\* differs from the new duration
C1_Refreshed ==
  \E i \in 1..Len(upLog) :
    /\ upLog[i].via = "adopt"
    /\ upLog[i].existed
    /\ upLog[i].oldRemaining > 0
    /\ upLog[i].oldRemaining # upLog[i].duration

\* C1 case: a field child firing refreshes a live entry
C1_RefreshedByField ==
  \E i \in 1..Len(upLog) :
    /\ upLog[i].via = "field"
    /\ upLog[i].existed
    /\ upLog[i].oldRemaining > 0

\* C2: ledger uniqueness. While a request is processed, and in the
\* activeEffects arrays of every result, each side holds at most one entry
\* per (type, target) pair.
C2_LedgerUnique ==
  /\ pc # "idle" => \A s \in Sides : Unique(buckets[s])
  /\ AtResult => \A s \in Sides : Unique(saved.activeEffects[s])

\* C2 case: an upsert met an existing pair and the turn reached its result
\* with that pair in the ledger
C2_UpsertOnExisting ==
  /\ pc # "idle"
  /\ \E i \in 1..Len(upLog) :
       /\ upLog[i].existed
       /\ \E s \in Sides :
            MapHas(buckets[s], <<upLog[i].type, upLog[i].target>>)

\* C2 case: the request echoed a ledger with a duplicated pair
C2_LoadedDuplicate ==
  /\ pc = "pField"
  /\ \E s \in Sides : ~Unique(saved.activeEffects[s])

\* C3: field capacity. Each side's onField array of a result holds at most
\* MAX_FIELD_SLOTS field cards.
C3_FieldCapacity ==
  AtResult => \A s \in Sides : Len(saved.onField[s]) <= MAX_FIELD_SLOTS

\* C3 for the player's side alone
C3_PlayerFieldCapacity ==
  AtResult => Len(saved.onField.player) <= MAX_FIELD_SLOTS

\* C3 case: the player plays two multi-hit cards with one slot left
C3_PlayerAtCapacity ==
  /\ AtResult
  /\ exitKind = "full"
  /\ Len(saved.onField.player) = MAX_FIELD_SLOTS
  /\ Len(SelectSeq(req.selectedCards, hasMultiHit)) >= 2


\* the well-formed entries of a field array (those that carry their card)
WellFormedOn(field) == SelectSeq(field, LAMBDA fc : fc.hasCard)

\* a field tick of side s: every live well-formed field card loses one turn;
\* those that reach 0 leave the field and their instances are appended to
\* s's deck
TickStep(s) ==
  LET live == SelectSeq(WellFormedOn(onField[s]),
                        LAMBDA fc : fc.turnsRemaining >= 1)
      staying == SelectSeq(live, LAMBDA fc : fc.turnsRemaining >= 2)
      leaving == SelectSeq(live, LAMBDA fc : fc.turnsRemaining = 1)
  IN /\ WellFormedOn(onField'[s]) =
          [i \in 1..Len(staying) |->
             [staying[i] EXCEPT !.turnsRemaining = @ - 1,
                                !.turnIndex = @ + 1]]
     /\ deck'[s] = deck[s] \o [i \in 1..Len(leaving) |-> leaving[i].instanceId]

\* every well-formed field card has at least one turn left and has lost one
\* turn per tick since it was created with turns - 1
FieldShape ==
  \A s \in Sides : \A i \in 1..Len(onField[s]) :
    LET fc == onField[s][i]
    IN fc.hasCard =>
         /\ fc.turnsRemaining >= 1
         /\ fc.turnsRemaining + fc.turnIndex
              = primaryOf(fc.instanceId).turns - 1

\* C4: field card lifecycle. Each field tick of the owning side lowers the
\* turnsRemaining of a well-formed field card by exactly 1; a card leaves the field on the tick that
\* brings it to 0 and its instance is appended to the owner's deck on that
\* tick; a card with turns = n is created with turnsRemaining = n - 1.
C4_Lifecycle ==
  [][/\ (pc = "pField" /\ pc' = "pMain") => TickStep("player")
     /\ (pc = "eField" /\ pc' = "eMain") => TickStep("enemy")
     /\ FieldShape']_vars

\* C4 case: a card with turns = 3 that has been ticked once is ticked again,
\* leaves the field and is the last card of its owner's deck
C4_BackAfterTwoTicks ==
  /\ pc = "pMain"
  /\ \E i \in 1..Len(saved.onField.player) :
       LET fc == saved.onField.player[i]
       IN /\ primaryOf(fc.instanceId).turns = 3
          /\ fc.turnIndex = 1
          /\ fc.turnsRemaining = 1
          /\ fc.instanceId \notin SeqToSet(saved.deck.player)
          /\ deck.player # <<>>
          /\ deck.player[Len(deck.player)] = fc.instanceId
          /\ \A j \in 1..Len(onField.player) :
               onField.player[j].instanceId # fc.instanceId

\* C4 case: a played multi-hit card with turns = 3 is on the field of the
\* result with turnsRemaining = 2
C4_CreatedByPlay ==
  /\ AtResult
  /\ \E i \in 1..Len(saved.onField.player) :
       LET fc == saved.onField.player[i]
       IN /\ fc.instanceId \in SeqToSet(req.selectedCards)
          /\ primaryOf(fc.instanceId).turns = 3
          /\ fc.turnsRemaining = 2

\* C5: revive at every HP-lowering point. Wherever a side's HP has dropped
\* to 0 or below while its ledger holds a Revive, its HP becomes
\* max(1, floor(vitality * 100 * power / 100)) and the Revive is deleted.
C5_ReviveAtEveryPoint ==
  \A i \in 1..Len(revLog) :
    LET r == revLog[i]
    IN (r.hpAtPoint <= 0 /\ r.hadRevive) =>
         /\ r.hpAfter = 2 * Max(1, (r.vitality * 100 * r.power) \div 100)
         /\ ~r.reviveLeft

\* C5 restricted to the points where the enemy's HP is lowered
C5_EnemyRevives ==
  \A i \in 1..Len(revLog) :
    LET r == revLog[i]
    IN (r.side = "enemy" /\ r.hpAtPoint <= 0 /\ r.hadRevive) =>
         /\ r.hpAfter = 2 * Max(1, (r.vitality * 100 * r.power) \div 100)
         /\ ~r.reviveLeft

\* C5 case: the enemy's HP reaches 0 while its ledger holds a Revive
C5_EnemyRevived ==
  \E i \in 1..Len(revLog) :
    revLog[i].side = "enemy" /\ revLog[i].hpAtPoint <= 0 /\ revLog[i].hadRevive

\* C6: Guard. A hit on a side whose Guard is active, made without a
\* Durability Negation bypass, deals no damage; played hits and field hits.
C6_GuardZeroDamage ==
  \A i \in 1..Len(hitLog) :
    (hitLog[i].guard /\ ~hitLog[i].bypass) => hitLog[i].dmg2 = 0

\* C6 restricted to played hits
C6_PlayedGuarded ==
  \A i \in 1..Len(hitLog) :
    (hitLog[i].kind = "played" /\ hitLog[i].guard /\ ~hitLog[i].bypass) =>
      hitLog[i].dmg2 = 0

\* C6 case: a played hit without bypass meets an active Guard
C6_PlayedIntoGuard ==
  \E i \in 1..Len(hitLog) :
    hitLog[i].kind = "played" /\ hitLog[i].guard /\ ~hitLog[i].bypass

\* C7: Ability Shield precedence. Against an active shield of precedence P
\* an opponent-targeting ability with precedence <= P does nothing (no
\* ledger entry, no negation, no bypass, no instant death), and one with
\* precedence > P does what it would do against no shield.
C7_ShieldPrecedence ==
  \A i \in 1..Len(abLog) :
    LET e == abLog[i]
    IN e.shield.active =>
         /\ e.precedence <= e.shield.precedence =>
              /\ ~e.did.adopted
              /\ ~e.did.negated
              /\ ~e.did.bypass
              /\ ~e.did.idRolled
         /\ e.precedence > e.shield.precedence => e.did = e.unshielded

\* C7 restricted to the abilities resolved through the queue (ledger entries
\* and negations)
C7_QueueRespectsShield ==
  \A i \in 1..Len(abLog) :
    LET e == abLog[i]
    IN e.shield.active =>
         /\ e.precedence <= e.shield.precedence =>
              ~e.did.adopted /\ ~e.did.negated
         /\ e.precedence > e.shield.precedence =>
              /\ e.did.adopted = e.unshielded.adopted
              /\ e.did.negated = e.unshielded.negated

\* C7 case: a shield blocks one queued ability and lets a higher one through
C7_BlockedAndPassed ==
  /\ \E i \in 1..Len(abLog) :
       /\ abLog[i].shield.active
       /\ abLog[i].precedence <= abLog[i].shield.precedence
       /\ abLog[i].unshielded.adopted \/ abLog[i].unshielded.negated
  /\ \E i \in 1..Len(abLog) :
       /\ abLog[i].shield.active
       /\ abLog[i].precedence > abLog[i].shield.precedence
       /\ abLog[i].did.adopted \/ abLog[i].did.negated

\* C8: damage formula. A played hit that is neither guarded nor dodged
\* contributes max((potency + power) * attackPower
\*                 - (defenderDurability * opposingPower) / 2, 0),
\* defenderDurability being 0 under a bypass; never a negative amount.
\* (dmg2 is twice the contribution.)
C8_DamageFormula ==
  \A i \in 1..Len(hitLog) :
    LET h == hitLog[i]
        dur == IF h.bypass THEN 0 ELSE h.durability
        raw2 == 2 * (h.potency + h.power) * h.attackPower - dur * h.oppPower
    IN /\ h.dmg2 >= 0
       /\ (h.kind = "played" /\ ~(h.guard /\ ~h.bypass) /\ ~h.dodged) =>
            h.dmg2 = (IF raw2 > 0 THEN raw2 ELSE 0)

\* C8 case: the worked example, potency 5, attackPower 10, physicalPower 8
\* against durability 4, physicalPower 6, gives 118
C8_Example ==
  \E i \in 1..Len(hitLog) :
    LET h == hitLog[i]
    IN /\ h.kind = "played" /\ ~h.guard /\ ~h.bypass /\ ~h.dodged
       /\ h.potency = 5 /\ h.attackPower = 10 /\ h.power = 8
       /\ h.durability = 4 /\ h.oppPower = 6
       /\ h.dmg2 = 2 * 118

\* C8 case: a hit whose raw damage is below the defense contributes 0
C8_Floored ==
  \E i \in 1..Len(hitLog) :
    LET h == hitLog[i]
    IN /\ h.kind = "played" /\ ~h.guard /\ ~h.dodged
       /\ 2 * (h.potency + h.power) * h.attackPower
            < (IF h.bypass THEN 0 ELSE h.durability) * h.oppPower
       /\ h.dmg2 = 0

\* the positions of the entries a negation deleted
Gone(n) ==
  {j \in 1..Len(n.before) :
     \A a \in 1..Len(n.after) : n.after[a] # n.before[j]}

\* C9: Ability Negation removal. A successful negation with power > 0 and
\* precedence p deletes exactly min(k, m) entries, k = clamp(power, 1, 3),
\* m = the number of entries with precedence below p; the deleted entries
\* are the lowest ones and none has precedence >= p.
C9_NegationRemoval ==
  \A i \in 1..Len(negLog) :
    LET n == negLog[i]
        k == Min(3, Max(1, n.power))
        below == {j \in 1..Len(n.before) :
                    n.before[j].precedence < n.precedence}
    IN /\ Cardinality(Gone(n)) = Min(k, Cardinality(below))
       /\ Gone(n) \subseteq below
       /\ \A g \in Gone(n), j \in below \ Gone(n) :
            n.before[g].precedence <= n.before[j].precedence
       /\ n.after = SelectSeq(n.before,
                      LAMBDA e : \E a \in 1..Len(n.after) : n.after[a] = e)

\* C9 case: the worked example, power 2 and precedence 5 against a ledger
\* with more than two entries below 5 or an entry at 5 or above
C9_Example ==
  \E i \in 1..Len(negLog) :
    LET n == negLog[i]
    IN /\ n.power = 2 /\ n.precedence = 5
       /\ Cardinality(Gone(n)) = 2
       /\ \E a \in 1..Len(n.after) : n.after[a].precedence >= 5

\* C9 case: fewer entries below p than the negation could delete
C9_FewerThanPower ==
  \E i \in 1..Len(negLog) :
    LET n == negLog[i]
    IN /\ Cardinality(Gone(n)) >= 1
       /\ Cardinality(Gone(n)) < Min(3, Max(1, n.power))
       /\ \E a \in 1..Len(n.after) : n.after[a].precedence = n.precedence

PhaseOrder ==
  <<"FieldTick(player)", "MainAction(player)", "PileUpdate(player)",
    "FieldTick(enemy)", "MainAction(enemy)", "PileUpdate(enemy)",
    "DurationTick", "Respond">>

PhaseIdx(ph) == CHOOSE k \in 1..Len(PhaseOrder) : PhaseOrder[k] = ph

Ran(ph) == \E i \in 1..Len(phases) : phases[i] = ph

\* C10: phase order. The phases of a request run in the order of PhaseOrder,
\* each at most once; a full turn runs the player's phases, then the
\* DurationTick exactly once, after both main actions and right before the
\* response; a seed exit or a no-op exit runs no DurationTick.
C10_PhaseOrder ==
  /\ \A i \in 1..Len(phases) : \E k \in 1..Len(PhaseOrder) : PhaseOrder[k] = phases[i]
  /\ \A i, j \in 1..Len(phases) :
       i < j => PhaseIdx(phases[i]) < PhaseIdx(phases[j])
  /\ (pc = "idle" /\ exitKind = "full") =>
       /\ Len(phases) >= 5
       /\ SubSeq(phases, 1, 3) = SubSeq(PhaseOrder, 1, 3)
       /\ phases[Len(phases) - 1] = "DurationTick"
       /\ phases[Len(phases)] = "Respond"
       /\ Ran("FieldTick(enemy)") = Ran("MainAction(enemy)")
       /\ Ran("MainAction(enemy)") = Ran("PileUpdate(enemy)")
  /\ (pc = "idle" /\ exitKind \in {"seed", "noop"}) =>
       /\ ~Ran("DurationTick")
       /\ phases[Len(phases)] = "Respond"
  /\ pc = "respond" => Ran("DurationTick")

\* C10 case: a full turn with a living enemy has run all eight phases
C10_FullTurn ==
  pc = "idle" /\ exitKind = "full" /\ phases = PhaseOrder

\* C10 case: a seed exit has answered after the player's pile update
C10_SeedExit ==
  /\ pc = "idle" /\ exitKind = "seed"
  /\ phases = <<"FieldTick(player)", "MainAction(player)",
                "PileUpdate(player)", "Respond">>

\* the instance ids of the field cards of a field array
FieldIds(field) == {field[i].instanceId : i \in 1..Len(field)}

\* side s stands at its main action or its pile update, frozen
FrozenAt(s) ==
  IF s = "player"
  THEN pc \in {"pMain", "pPile"} /\ ~IsNoop /\ frozenPersist(buckets.player)
  ELSE pc \in {"eMain", "ePile"} /\ frozenPersist(buckets.enemy)

\* the main action and the pile update of a frozen side s resolve nothing:
\* no SP change, no roll, no adoption, no negation, no hit, no HP change
NothingResolved(s) ==
  /\ sp'[s] = sp[s]
  /\ hp2' = hp2
  /\ buckets' = buckets
  /\ upLog' = <<>> /\ negLog' = <<>> /\ hitLog' = <<>> /\ abLog' = <<>>

\* C11: Freeze gating. While a side stands frozen (Freeze with remaining > 0)
\* at its main action and pile update, its SP is unchanged, nothing of its
\* cards is resolved, and no field card is created for it.
C11_FreezeGating ==
  [][\A s \in Sides :
       FrozenAt(s) =>
         /\ NothingResolved(s)
         /\ FieldIds(onField'[s]) \subseteq FieldIds(onField[s])]_vars

\* C11 without the field: a frozen side's SP, HP and ledger stay as they are
C11_FrozenResolvesNothing ==
  [][\A s \in Sides : FrozenAt(s) => NothingResolved(s)]_vars

\* C11 for the enemy: a frozen enemy gets no new field card
C11_FrozenEnemyNoFieldCard ==
  [][FrozenAt("enemy") =>
       FieldIds(onField'.enemy) \subseteq FieldIds(onField.enemy)]_vars

\* C11 case: a frozen player has sent a play with cards and the turn has
\* passed the player's pile update
C11_FrozenPlay ==
  /\ pc = "eField"
  /\ req.action = "play" /\ req.selectedCards # <<>>
  /\ frozenPersist(buckets.player)

\* this step answers the request in hand through the seed or the no-op exit
ShortExit == pc # "idle" /\ pc' = "idle" /\ exitKind' \in {"seed", "noop"}

\* C12: seed / no-op exit. A request answered through the seed exit or the
\* no-op exit returns both sides' HP and SP, the ledger and both field
\* arrays as they came in (the ledger and the field arrays as loaded from
\* the request), and runs no enemy phase and no DurationTick.
C12_ExitChangesOnlyDraw ==
  [][ShortExit =>
       /\ saved'.hp2 = saved.hp2
       /\ saved'.sp = saved.sp
       /\ saved'.activeEffects =
            dumpActiveBuckets(loadActiveBuckets(saved.activeEffects))
       /\ \A s \in Sides :
            saved'.onField[s] =
              SubSeq(saved.onField[s], 1,
                     Min(Len(saved.onField[s]), MAX_FIELD_SLOTS))
       /\ \A i \in 1..Len(phases') :
            phases'[i] \notin {"FieldTick(enemy)", "MainAction(enemy)",
                               "PileUpdate(enemy)", "DurationTick"}]_vars

\* C12 for the no-op exit and the enemy's HP alone: a request with no action
\* and no cards never lowers the enemy's HP
C12_NoopKeepsEnemyHp ==
  [][(ShortExit /\ exitKind' = "noop") => saved'.hp2.enemy >= saved.hp2.enemy]_vars

\* C12 restricted to what runs: no enemy phase and no DurationTick, and the
\* enemy's piles, the player's HP and the enemy's SP come back unchanged
C12_NoEnemyPhase ==
  [][ShortExit =>
       /\ \A i \in 1..Len(phases') :
            phases'[i] \notin {"FieldTick(enemy)", "MainAction(enemy)",
                               "PileUpdate(enemy)", "DurationTick"}
       /\ saved'.hand.enemy = saved.hand.enemy
       /\ saved'.deck.enemy = saved.deck.enemy
       /\ saved'.hp2.player = saved.hp2.player
       /\ saved'.sp.enemy = saved.sp.enemy]_vars

\* C12 case: a no-op request was answered while the player had a live field
\* card
C12_NoopWithField ==
  /\ pc = "idle" /\ exitKind = "noop"
  /\ turn = 1
  /\ \E sc \in Scenarios : sc.onField.player # <<>> /\ sc.hand = saved.hand

\* the played multi-hit cards of a play that hold no field card afterwards
Unfielded(cards, field) ==
  {c \in SeqToSet(cards) : hasMultiHit(c) /\ c \notin FieldIds(field)}

\* C13: field overflow. After the pile update of a side that played, every
\* played multi-hit card that holds no field card is in that side's deck
\* (or was drawn back into its hand from there).
C13_OverflowReturns ==
  /\ (pc = "eField" /\ req.action = "play" /\ ~frozenPersist(buckets.player)) =>
       Unfielded(req.selectedCards, onField.player)
         \subseteq SeqToSet(deck.player) \cup SeqToSet(hand.player)
  /\ (pc = "tick" /\ eChoice.action = "play") =>
       Unfielded(eChoice.cards, onField.enemy)
         \subseteq SeqToSet(deck.enemy) \cup SeqToSet(hand.enemy)

\* C13 for the cards without a multi-hit ability: none disappears
C13_PlainCardsReturn ==
  /\ (pc = "eField" /\ req.action = "play" /\ ~frozenPersist(buckets.player)) =>
       {c \in SeqToSet(req.selectedCards) : ~hasMultiHit(c)}
         \subseteq SeqToSet(deck.player) \cup SeqToSet(hand.player)
  /\ (pc = "tick" /\ eChoice.action = "play") =>
       {c \in SeqToSet(eChoice.cards) : ~hasMultiHit(c)}
         \subseteq SeqToSet(deck.enemy) \cup SeqToSet(hand.enemy)

\* C13 case: the player overflows the field
C13_PlayerOverflow ==
  /\ pc = "eField" /\ req.action = "play" /\ ~frozenPersist(buckets.player)
  /\ Unfielded(req.selectedCards, onField.player) # {}

\* C13 case: the enemy overflows the field
C13_EnemyOverflow ==
  /\ pc = "tick" /\ eChoice.action = "play"
  /\ Unfielded(eChoice.cards, onField.enemy) # {}

\* C14: defend leaves the hand untouched. The pile update of a side whose
\* action is defend keeps every card of its hand in its hand.
C14_DefendKeepsHand ==
  [][/\ (pc = "pPile" /\ req.action = "defend") =>
          SeqToSet(hand.player) \subseteq SeqToSet(hand'.player)
     /\ (pc = "ePile" /\ eChoice.action = "defend") =>
          SeqToSet(hand.enemy) \subseteq SeqToSet(hand'.enemy)]_vars

\* C14 for the player: the hand is kept in place and only topped up from the
\* top of the deck, up to HAND_SIZE
C14_PlayerDefendKeepsHand ==
  [][(pc = "pPile" /\ req.action = "defend") =>
       /\ Len(hand'.player) >= Len(hand.player)
       /\ SubSeq(hand'.player, 1, Len(hand.player)) = hand.player
       /\ hand'.player \o deck'.player = hand.player \o deck.player
       /\ Len(hand'.player) = Min(Max(HAND_SIZE, Len(hand.player)),
                                  Len(hand.player) + Len(deck.player))]_vars

\* C14 case: the player defends with a hand below HAND_SIZE and cards in the
\* deck
C14_PlayerDefended ==
  /\ pc = "eField" /\ req.action = "defend"
  /\ Len(saved.hand.player) < HAND_SIZE
  /\ Len(hand.player) > Len(saved.hand.player)

\* C14 case: the enemy defends with cards in its deck
C14_EnemyDefended ==
  pc = "ePile" /\ eChoice.action = "defend" /\ deck.enemy # <<>>

\* the player's pile update of a resolved play, as the pile rules give it:
\* the played cards leave the hand, those without a multi-hit ability go to
\* the bottom of the deck in hand order, then the hand is refilled from the
\* top of the deck
PlayedPileRule ==
  LET sel == SeqToSet(req.selectedCards)
      h == SelectSeq(hand.player, LAMBDA c : c \notin sel)
      d == deck.player
           \o SelectSeq(hand.player, LAMBDA c : c \in sel /\ ~hasMultiHit(c))
  IN /\ hand'.player \o deck'.player = h \o d
     /\ Len(hand'.player) = Min(HAND_SIZE, Len(h) + Len(d))

\* C15: played cards leave the hand. When the player's selected cards were
\* resolved as a play (action play, or no action with cards selected), the
\* pile update removes them from the hand and puts those without a
\* multi-hit ability at the bottom of the deck before the refill.
C15_PlayedLeaveHand ==
  [][(pc = "pPile" /\ IsPlay /\ ~frozenPersist(buckets.player)) =>
       PlayedPileRule]_vars

\* C15 for requests that name the action play
C15_ExplicitPlay ==
  [][(pc = "pPile" /\ req.action = "play"
      /\ ~frozenPersist(buckets.player)) => PlayedPileRule]_vars

\* C15 case: a play of a card with and a card without a multi-hit ability
\* has gone through the pile update
C15_MixedPlay ==
  /\ pc = "eField" /\ req.action = "play" /\ ~frozenPersist(buckets.player)
  /\ \E i, j \in 1..Len(req.selectedCards) :
       hasMultiHit(req.selectedCards[i]) /\ ~hasMultiHit(req.selectedCards[j])

\* C15 case: cards selected with no action named were resolved as a play
C15_ImplicitPlay ==
  /\ pc = "pPile" /\ req.action = "none" /\ req.selectedCards # <<>>
  /\ sp.player < saved.sp.player

\* the request in hand selects cards that cost more SP than the player has
Unaffordable ==
  /\ pc \in {"pMain", "pPile"}
  /\ req.selectedCards # <<>>
  /\ costOf(req.selectedCards) > saved.sp.player

\* this step answers the request with the rejection
Rejects == pc' = "idle" /\ exitKind' = "rejected" /\ saved' = saved

\* C16: rejected play. Selected cards that cost more than the player's SP
\* are never resolved and never moved between hand, deck and field: the
\* request is answered with the rejection; and the player's SP is never
\* negative.
C16_RejectedPlay ==
  [][/\ Unaffordable =>
          \/ Rejects
          \/ /\ NothingResolved("player")
             /\ hand' = hand /\ deck' = deck /\ onField' = onField
             /\ pc' # "idle"
     /\ sp'.player >= 0]_vars

\* C16 for a player who is not frozen
C16_UnfrozenRejected ==
  [][/\ (Unaffordable /\ ~frozenPersist(buckets.player)) => Rejects
     /\ sp'.player >= 0]_vars

\* C16 case: a play that costs more than the player's SP was rejected
C16_Rejected ==
  /\ pc = "idle" /\ exitKind = "rejected"
  /\ costOf(req.selectedCards) > saved.sp.player

\* C16 case: a play took the player's SP to exactly 0
C16_SpentAll ==
  /\ pc = "pPile" /\ IsPlay /\ ~frozenPersist(buckets.player)
  /\ sp.player = 0 /\ saved.sp.player > 0

\* the entries of a bucket that outlive a tick, each with one turn less
Ticked(bucket) ==
  LET staying == SelectSeq(bucket, LAMBDA e : e.remaining >= 2)
  IN [i \in 1..Len(staying) |-> [staying[i] EXCEPT !.remaining = @ - 1]]

\* C17: duration tick. The tick lowers the remaining of every entry of both
\* ledgers by exactly 1 and deletes exactly the entries that have no turn
\* left then, passing over none; the ledger of a full-turn result holds no
\* entry with remaining below 1; an empty bucket stays empty.
C17_DurationTick ==
  /\ \A t \in 1..Len(tickLog) : \A s \in Sides :
       /\ buckets[s] = Ticked(tickLog[t][s])
       /\ tickLog[t][s] = <<>> => buckets[s] = <<>>
  /\ (pc = "idle" /\ exitKind = "full") =>
       \A s \in Sides : \A i \in 1..Len(saved.activeEffects[s]) :
         saved.activeEffects[s][i].remaining >= 1
  /\ pc = "respond" =>
       \A s \in Sides : \A i \in 1..Len(buckets[s]) :
         buckets[s][i].remaining >= 1

\* C17 case: the tick deleted an entry that stood before one it kept
C17_DeletedBeforeKept ==
  \E t \in 1..Len(tickLog) : \E s \in Sides :
    \E i \in 1..(Len(tickLog[t][s]) - 1) :
      /\ tickLog[t][s][i].remaining = 1
      /\ tickLog[t][s][i + 1].remaining >= 2
      /\ buckets[s] # <<>>

\* C17 case: the tick met an empty bucket
C17_EmptyBucket ==
  \E t \in 1..Len(tickLog) : \E s \in Sides : tickLog[t][s] = <<>>

\* C18: upsert replaces power and precedence. An activation that meets an
\* existing (type, target) entry leaves the entry with the power and the
\* precedence of the new activation, also when the new precedence is the
\* lower one.
C18_UpsertReplaces ==
  \A i \in 1..Len(upLog) :
    upLog[i].existed =>
      /\ upLog[i].newPower = upLog[i].power
      /\ upLog[i].newPrecedence = upLog[i].precedence

\* C18 for the power alone
C18_PowerReplaced ==
  \A i \in 1..Len(upLog) :
    upLog[i].existed => upLog[i].newPower = upLog[i].power

\* C18 case: an activation with another power met an existing entry
C18_OtherPower ==
  \E i \in 1..Len(upLog) :
    upLog[i].existed /\ upLog[i].oldPower # upLog[i].power

\* C18 case: an activation with a lower precedence met an existing entry
C18_LowerPrecedence ==
  \E i \in 1..Len(upLog) :
    upLog[i].existed /\ upLog[i].precedence < upLog[i].oldPrecedence

\* the persistent-type abilities of a card that are linked to its attack
AttackLinked(iid) ==
  {j \in 1..Len(getAbilities(iid)) :
     LET ab == getAbilities(iid)[j]
     IN /\ \E k \in 1..Len(ab.linkedTo) : ab.linkedTo[k] = "attack"
        /\ ab.type \in PERSISTENT_TYPES}

\* the ability was deferred in pre-damage: no Ability Shield blocked it
Deferred(ab) ==
  targetsOpponent(ab.type) =>
    \E k \in 1..Len(abLog) :
      /\ abLog[k].type = ab.type
      /\ abLog[k].precedence = ab.precedence
      /\ ~blockedByShield(abLog[k].shield, ab)

\* the played hit landed: Guard did not stop it and it was not dodged
Landed(h) == h.kind = "played" /\ ~(h.guard /\ ~h.bypass) /\ ~h.dodged

\* the ability of the hit's card was upserted into the ledger of the side
\* its type names
Fired(h, ab) ==
  LET e == EntryOf(ab, getTypes(h.card))
      side == IF targetsOpponent(ab.type) THEN Other(h.side) ELSE h.side
  IN /\ \E u \in 1..Len(upLog) :
          /\ upLog[u].type = e.type /\ upLog[u].target = e.target
          /\ upLog[u].power = e.power
     /\ MapHas(buckets[side], <<e.type, e.target>>)

\* C19: attack-linked abilities fire on hit. After a play, every deferred
\* attack-linked persistent ability of a card whose hit landed has been
\* upserted into the ledger its type names, and none of a card whose hit did
\* not land has.
C19_AttackLinkedOnHit ==
  pc \in {"pPile", "ePile"} =>
    \A i \in 1..Len(hitLog) : \A j \in AttackLinked(hitLog[i].card) :
      LET ab == getAbilities(hitLog[i].card)[j]
      IN (hitLog[i].kind = "played" /\ Deferred(ab)) =>
           (Landed(hitLog[i]) <=> Fired(hitLog[i], ab))

\* C19 for the hits that do not land
C19_NoEffectWithoutHit ==
  pc \in {"pPile", "ePile"} =>
    \A i \in 1..Len(hitLog) : \A j \in AttackLinked(hitLog[i].card) :
      LET ab == getAbilities(hitLog[i].card)[j]
      IN (hitLog[i].kind = "played" /\ ~Landed(hitLog[i])) =>
           ~Fired(hitLog[i], ab)

\* C19 case: a played card with a deferred attack-linked ability missed
C19_LinkedMissed ==
  /\ pc \in {"pPile", "ePile"}
  /\ \E i \in 1..Len(hitLog) : \E j \in AttackLinked(hitLog[i].card) :
       /\ hitLog[i].kind = "played" /\ ~Landed(hitLog[i])
       /\ Deferred(getAbilities(hitLog[i].card)[j])

\* both clients hold a turn result resolved from the same snapshot
SameSnapshot ==
  /\ \A c \in Clients : calls[c].status \in {"returned", "persisted"}
  /\ calls.a.snap = calls.b.snap

\* C20: no cross-request protection. The request of a client is resolved
\* from the state that client read, whatever has been saved since and
\* whatever the call before left in the handler's variables, and
\* saving a turn result overwrites the stored state with that result alone,
\* whatever the other client saved: of two turns resolved from one snapshot
\* the stored state reflects one.
C20_NoProtection ==
  [][/\ \A c \in Clients :
          /\ (serving = "none" /\ serving' = c) => saved' = calls[c].snap
          /\ (calls[c].status = "returned" /\ calls'[c].status = "persisted")
               => store' = calls[c].result
     /\ (pc = "idle" /\ pc' # "idle")
          => /\ hp2' = saved.hp2 /\ sp' = saved.sp
             /\ hand' = saved.hand /\ deck' = saved.deck
     /\ (SameSnapshot' /\ \A c \in Clients : calls'[c].status = "persisted")
          => store' \in {calls'[c].result : c \in Clients}]_vars

\* C20 case: a lost update. Both clients read the same snapshot, both got a
\* full-turn result of a card play, both saved; the results differ, the
\* stored state is the one saved last and holds nothing of the other turn.
C20_LostUpdate ==
  /\ SameSnapshot
  /\ \A c \in Clients : calls[c].status = "persisted"
  /\ calls.a.result # calls.b.result
  /\ calls.a.result.sp.player < calls.a.snap.sp.player
  /\ calls.b.result.sp.player < calls.b.snap.sp.player
  /\ store = calls.b.result
  /\ turn = 2

\* an ability of a played card that the pre-damage pass did not accept: it
\* failed its roll, or its activationChance kept it out of the queue
Failed(e) == e.outcome \in {"missed", "excluded"}

\* no ability of the type of e was accepted in the play, and the play
\* adopted an entry of that type
EntryOfFailed(e, log, ups) ==
  /\ \A j \in 1..Len(log) : log[j].type = e.type => log[j].outcome # "won"
  /\ \E u \in 1..Len(ups) : ups[u].via = "adopt" /\ ups[u].type = e.type

\* C21: failed or never-rolled abilities have no effect. An ability of a
\* played card that fails its activation roll, or that is kept out of the
\* queue by activationChance <= 0, adds no ledger entry, grants no
\* durability/guard bypass to the hit of its card and causes no instant death.
C21_FailedNoEffect ==
  [][\A i \in 1..Len(rollLog') :
       Failed(rollLog'[i]) =>
         /\ ~rollLog'[i].stored
         /\ ~EntryOfFailed(rollLog'[i], rollLog', upLog')
         /\ ~rollLog'[i].bypass
         /\ ~rollLog'[i].killed]_vars

\* C21, ledger part: a failed or never-rolled ability adds no ledger entry
C21_FailedAddsNoEntry ==
  [][\A i \in 1..Len(rollLog') :
       Failed(rollLog'[i]) =>
         /\ ~rollLog'[i].stored
         /\ ~rollLog'[i].negated
         /\ ~EntryOfFailed(rollLog'[i], rollLog', upLog')]_vars

\* C21, bypass part: a never-rolled Durability Negation grants no bypass
C21_FailedGrantsNoBypass ==
  [][\A i \in 1..Len(rollLog') :
       Failed(rollLog'[i]) => ~rollLog'[i].bypass]_vars

\* C21, instant death part: an Instant Death that failed its roll kills nobody
C21_FailedKillsNobody ==
  [][\A i \in 1..Len(rollLog') :
       Failed(rollLog'[i]) => ~rollLog'[i].killed]_vars

\* C21 case: an Instant Death missed its roll in the queue
C21_MissedInstantDeath ==
  \E i \in 1..Len(rollLog) :
    rollLog[i].type = "Instant Death" /\ rollLog[i].outcome = "missed"

\* the sibling keys an ability depends on
Parents(e) == {e.linkedTo[j] : j \in 1..Len(e.linkedTo)} \ {"attack"}

\* every parent of e succeeded (won its roll or was deferred as
\* attack-linked) for the same card instance, earlier in the queue
ParentsSucceeded(e, log) ==
  \A p \in Parents(e) :
    \E j \in 1..Len(log) :
      /\ log[j].card = e.card /\ log[j].key = p
      /\ log[j].outcome \in {"won", "deferred"}
      /\ log[j].place > 0 /\ log[j].place < e.place

\* a queued ability with parents was rolled or deferred only after its
\* parents succeeded, and was skipped otherwise
Gated(e, log) ==
  /\ e.outcome \in {"deferred", "missed", "won"} => ParentsSucceeded(e, log)
  /\ ~ParentsSucceeded(e, log) => e.outcome = "gated"

\* C22: dependency gating. An ability whose linkedTo names sibling keys is
\* rolled or deferred only if every named parent of the same card instance
\* succeeded earlier in the queue; otherwise it is skipped with no roll and
\* no effect.
C22_DependencyGating ==
  [][\A i \in 1..Len(rollLog') :
       LET e == rollLog'[i]
       IN (Parents(e) # {} /\ e.outcome # "excluded") =>
            /\ Gated(e, rollLog')
            /\ e.outcome = "gated" =>
                 /\ ~e.stored /\ ~e.negated /\ ~e.bypass /\ ~e.killed
                 /\ ~EntryOfFailed(e, rollLog', upLog')]_vars

\* C22, queue part: the pre-damage pass skips a child whose parents have not
\* succeeded, and the skipped child adds nothing to the ledger
C22_QueueGating ==
  [][\A i \in 1..Len(rollLog') :
       LET e == rollLog'[i]
       IN (Parents(e) # {} /\ e.outcome # "excluded") =>
            /\ Gated(e, rollLog')
            /\ e.outcome = "gated" =>
                 /\ ~e.stored /\ ~e.negated
                 /\ ~EntryOfFailed(e, rollLog', upLog')]_vars

\* C22 case: a child is skipped although another card instance of the same
\* play succeeded with the parent's key
C22_OtherInstance ==
  \E i, j \in 1..Len(rollLog) :
    /\ rollLog[i].outcome = "gated"
    /\ rollLog[j].card # rollLog[i].card
    /\ rollLog[j].key \in Parents(rollLog[i])
    /\ rollLog[j].outcome = "won"
    /\ rollLog[j].place < rollLog[i].place

\* C22 case: a child is skipped because its parent was blocked by the shield
C22_ParentBlocked ==
  \E i, j \in 1..Len(rollLog) :
    /\ rollLog[i].outcome = "gated"
    /\ rollLog[j].card = rollLog[i].card
    /\ rollLog[j].key \in Parents(rollLog[i])
    /\ rollLog[j].outcome = "blocked"

\* C22 case: a child was rolled after its parent succeeded
C22_ChildRolled ==
  \E i \in 1..Len(rollLog) :
    /\ Parents(rollLog[i]) # {}
    /\ rollLog[i].outcome = "won"

\* the field tick of side s is the step being taken
Ticking(s) ==
  IF s = "player" THEN pc = "pField" /\ pc' = "pMain"
  ELSE pc = "eField" /\ pc' = "eMain"

\* no hit of the step comes from the field card instance iid of side s
NoHitOf(s, iid) ==
  \A h \in 1..Len(hitLog') :
    ~(hitLog'[h].kind = "field" /\ hitLog'[h].side = s
      /\ hitLog'[h].card = iid)

\* C23: malformed field snapshot. A FieldCard entry lacking its card data,
\* when its side is ticked, deals no damage, keeps its turnsRemaining
\* unchanged and stays on the field.
C23_MalformedSnapshot ==
  [][\A s \in Sides : Ticking(s) =>
       \A i \in 1..Len(onField[s]) :
         LET fc == onField[s][i]
         IN (~fc.hasCard /\ fc.turnsRemaining > 0) =>
              /\ NoHitOf(s, fc.instanceId)
              /\ \E j \in 1..Len(onField'[s]) : onField'[s][j] = fc]_vars

\* C23, the part the code keeps: the entry deals no damage, fires nothing
\* and is on the field after the tick
C23_MalformedKeptAlive ==
  [][\A s \in Sides : Ticking(s) =>
       \A i \in 1..Len(onField[s]) :
         LET fc == onField[s][i]
         IN (~fc.hasCard /\ fc.turnsRemaining > 0) =>
              /\ NoHitOf(s, fc.instanceId)
              /\ \A f \in 1..Len(fireLog') :
                   fireLog'[f].card # fc.instanceId
              /\ \E j \in 1..Len(onField'[s]) :
                   /\ onField'[s][j].instanceId = fc.instanceId
                   /\ ~onField'[s][j].hasCard]_vars

\* C23 case: a malformed entry has been ticked down to turnsRemaining = 0
\* and is still on the field of the result
C23_MalformedSpent ==
  /\ AtResult
  /\ \E i \in 1..Len(saved.onField.enemy) :
       /\ ~saved.onField.enemy[i].hasCard
       /\ saved.onField.enemy[i].turnsRemaining = 0

\* the field card of side s names a field card that is on neither list
Vanished(s, fc) ==
  /\ fc.hasCard
  /\ fc.turnsRemaining > 0
  /\ fc.targetRef.kind = "field"
  /\ \A i \in 1..Len(onField[fc.targetRef.side]) :
       onField[fc.targetRef.side][i].instanceId # fc.targetRef.instanceId

\* the step fires a child ability of the field card instance iid of side s
FiresOf(s, iid) ==
  \E f \in 1..Len(fireLog') :
    fireLog'[f].side = s /\ fireLog'[f].card = iid

\* the step pushes a retarget prompt for the field card instance iid of s
PromptsFor(s, iid) ==
  \E p \in 1..Len(promptLog') :
    promptLog'[p].owner = s /\ promptLog'[p].instanceId = iid

\* C24: vanished field target. On a tick, a FieldCard whose targetRef names
\* a field card that no longer exists is removed from the field if its mode
\* is 'lock'; hits the opposing character if its mode is 'retarget-random';
\* and if its mode is 'retarget-choose' a prompt is emitted and the card is
\* held: no damage, no child ability fired, turnsRemaining kept.
C24_VanishedTarget ==
  [][\A s \in Sides : Ticking(s) =>
       \A i \in 1..Len(onField[s]) :
         LET fc == onField[s][i]
         IN Vanished(s, fc) =>
              /\ fc.mode = "lock" =>
                   /\ NoHitOf(s, fc.instanceId)
                   /\ \A j \in 1..Len(onField'[s]) :
                        onField'[s][j].instanceId # fc.instanceId
              /\ fc.mode = "retarget-random" => ~NoHitOf(s, fc.instanceId)
              /\ fc.mode = "retarget-choose" =>
                   /\ PromptsFor(s, fc.instanceId)
                   /\ NoHitOf(s, fc.instanceId)
                   /\ ~FiresOf(s, fc.instanceId)
                   /\ \E j \in 1..Len(onField'[s]) : onField'[s][j] = fc]_vars

\* C24, the part the code keeps: a vanished target means no hit for 'lock'
\* and 'retarget-choose', a hit on the character for 'retarget-random', and
\* a prompt for 'retarget-choose'
C24_VanishedResolution ==
  [][\A s \in Sides : Ticking(s) =>
       \A i \in 1..Len(onField[s]) :
         LET fc == onField[s][i]
         IN Vanished(s, fc) =>
              /\ fc.mode = "lock" => NoHitOf(s, fc.instanceId)
              /\ fc.mode = "retarget-random" => ~NoHitOf(s, fc.instanceId)
              /\ fc.mode = "retarget-choose" =>
                   /\ PromptsFor(s, fc.instanceId)
                   /\ NoHitOf(s, fc.instanceId)]_vars

\* C24 (a) alone: a 'lock' card with a vanished target leaves the field
C24_LockRemoved ==
  [][\A s \in Sides : Ticking(s) =>
       \A i \in 1..Len(onField[s]) :
         (Vanished(s, onField[s][i]) /\ onField[s][i].mode = "lock") =>
           \A j \in 1..Len(onField'[s]) :
             onField'[s][j].instanceId # onField[s][i].instanceId]_vars

\* C24 (c) alone: a 'retarget-choose' card with a vanished target keeps its
\* turnsRemaining
C24_ChooseKeepsTurns ==
  [][\A s \in Sides : Ticking(s) =>
       \A i \in 1..Len(onField[s]) :
         (Vanished(s, onField[s][i])
          /\ onField[s][i].mode = "retarget-choose") =>
           \E j \in 1..Len(onField'[s]) :
             /\ onField'[s][j].instanceId = onField[s][i].instanceId
             /\ onField'[s][j].turnsRemaining
                  = onField[s][i].turnsRemaining]_vars

\* C24 (c) alone: a 'retarget-choose' card with a vanished target fires no
\* child ability
C24_ChooseFiresNothing ==
  [][\A s \in Sides : Ticking(s) =>
       \A i \in 1..Len(onField[s]) :
         (Vanished(s, onField[s][i])
          /\ onField[s][i].mode = "retarget-choose") =>
           ~FiresOf(s, onField[s][i].instanceId)]_vars

\* C24 case: the prompt of a held card is in the result and the card has
\* lost a turn
C24_PromptedAndTicked ==
  /\ pc = "pMain"
  /\ \E p \in 1..Len(promptLog) : \E i \in 1..Len(saved.onField.player) :
       LET fc == saved.onField.player[i]
       IN /\ promptLog[p].instanceId = fc.instanceId
          /\ \E j \in 1..Len(onField.player) :
               /\ onField.player[j].instanceId = fc.instanceId
               /\ onField.player[j].turnsRemaining = fc.turnsRemaining - 1

\* the children of a card that carry a schedule and are linked to the
\* primary ability or to the attack
Scheduled(iid) ==
  {k \in 1..Len(getAbilities(iid)) :
     /\ getAbilities(iid)[k].type # "Multi-Hit"
     /\ linkedToPrimary(getAbilities(iid)[k], primaryOf(iid).key)
     /\ getAbilities(iid)[k].schedule.type # "none"}

\* the overall turns on which the field card fires the child ab: the
\* authored list, or the turns sampled when the card was created
ScheduleOf(fc, ab) ==
  IF ab.schedule.type = "list" THEN ab.schedule.turns
  ELSE IF ab.key \in DOMAIN fc.childTurns THEN fc.childTurns[ab.key]
  ELSE {}

\* the entries of side s's field that are ticked and whose schedule for the
\* child ab of instance iid holds the overall turn of the tick
Due(s, iid, ab) ==
  {j \in 1..Len(onField[s]) :
     /\ onField[s][j].instanceId = iid
     /\ onField[s][j].hasCard
     /\ onField[s][j].turnsRemaining > 0
     /\ (onField[s][j].turnIndex + 2) \in ScheduleOf(onField[s][j], ab)}

\* the firings of the child with the given key that the step logs
Firings(s, iid, key) ==
  {f \in 1..Len(fireLog') :
     /\ fireLog'[f].side = s
     /\ fireLog'[f].card = iid
     /\ fireLog'[f].key = key}

\* the sampled turns of every field card lie in [2, turns], and a randomly
\* scheduled child holds min(turns - 1, times) of them
SampledInWindow ==
  \A s \in Sides : \A i \in 1..Len(onField[s]) :
    LET fc == onField[s][i]
        turns == primaryOf(fc.instanceId).turns
    IN fc.hasCard =>
         /\ \A k \in DOMAIN fc.childTurns : fc.childTurns[k] \subseteq 2..turns
         /\ \A k \in Scheduled(fc.instanceId) :
              LET ab == getAbilities(fc.instanceId)[k]
              IN ab.schedule.type = "random" =>
                   /\ ab.key \in DOMAIN fc.childTurns
                   /\ Cardinality(fc.childTurns[ab.key])
                        = Min(turns - 1, ab.schedule.times)

\* C25: scheduled child abilities. A FieldCard's child ability linked to
\* the primary/attack and carrying a schedule fires on a tick if and only if
\* the overall turn of the tick (first field tick = 2) is in its schedule
\* (the explicit list, or the distinct turns sampled at creation); every
\* sampled turn lies in [2, turns]; firing needs no activation roll and
\* happens at most once per overall turn per FieldCard.
C25_ScheduledChildren ==
  [][/\ SampledInWindow'
     /\ \A s \in Sides : Ticking(s) =>
          \A i \in 1..Len(onField[s]) :
            LET fc == onField[s][i]
            IN (fc.hasCard /\ fc.turnsRemaining > 0) =>
                 \A k \in Scheduled(fc.instanceId) :
                   LET ab == getAbilities(fc.instanceId)[k]
                   IN /\ Cardinality(Firings(s, fc.instanceId, ab.key))
                           = Cardinality(Due(s, fc.instanceId, ab))
                      /\ \A f \in Firings(s, fc.instanceId, ab.key) :
                           \E j \in Due(s, fc.instanceId, ab) :
                             fireLog'[f].overallTurn
                               = onField[s][j].turnIndex + 2]_vars

\* C25 case: a card played in this run was given a sampled turn, did not
\* fire its child on the tick of another overall turn or fired it on the
\* tick of the sampled one, the child having an activation chance below 100
\* or a sampled schedule
C25_FiredOnSchedule ==
  /\ pc = "pMain"
  /\ \E f \in 1..Len(fireLog) : \E i \in 1..Len(saved.onField.player) :
       LET fc == saved.onField.player[i]
       IN /\ fc.instanceId = fireLog[f].card
          /\ fireLog[f].key \in DOMAIN fc.childTurns
          /\ fireLog[f].overallTurn \in fc.childTurns[fireLog[f].key]
          /\ fireLog[f].overallTurn = fc.turnIndex + 2
          /\ fc.instanceId \notin
               {Hunted.onField.player[j].instanceId :
                  j \in 1..Len(Hunted.onField.player)}

\* C25 case: a listed child with activation chance 50 fires on its listed
\* overall turn 3
C25_ListedFired ==
  /\ pc = "pMain"
  /\ \E f \in 1..Len(fireLog) :
       /\ fireLog[f].key = "ul"
       /\ fireLog[f].overallTurn = 3
       /\ abilityOf(fireLog[f].card, "ul").activationChance < 100

\* C25 case: a tick passes on which a scheduled child of a ticked card is
\* not due and does not fire
C25_NotDue ==
  /\ pc = "pMain"
  /\ \E i \in 1..Len(saved.onField.player) :
       LET fc == saved.onField.player[i]
       IN /\ fc.hasCard /\ fc.turnsRemaining > 0
          /\ \E k \in Scheduled(fc.instanceId) :
               \A f \in 1..Len(fireLog) :
                 ~(/\ fireLog[f].card = fc.instanceId
                   /\ fireLog[f].key = getAbilities(fc.instanceId)[k].key)

\* the step completes a turn: saved is the incoming state, saved' the result
Completes == pc # "idle" /\ pc' = "idle"

\* the request names the field card fc of side o as its negation target,
\* and the card is no longer on o's field in the result
NegatedAway(o, fc) ==
  /\ req.negationTarget = [owner |-> o, instanceId |-> fc.instanceId]
  /\ fc.instanceId \notin FieldIds(saved'.onField[o])

\* C26: a negation-removed FieldCard is recycled. When a FieldCard is
\* removed from a side's field by the negation action (negationTarget), its
\* card instance is in its owner's deck (or drawn from there into the hand)
\* in the same turn result.
C26_NegatedRecycled ==
  [][Completes =>
       \A o \in Sides : \A i \in 1..Len(saved.onField[o]) :
         NegatedAway(o, saved.onField[o][i]) =>
           saved.onField[o][i].instanceId
             \in SeqToSet(saved'.deck[o]) \cup SeqToSet(saved'.hand[o])]_vars

\* the net damage (in half points) the Damage Calculator gives an immediate,
\* unguarded, undodged hit of side s with the card of the hit h, from the
\* current stats of both sides under the ledger b
ImmediateNet2(s, h, b) ==
  LET types == getTypes(h.card)
      att == Carry(b, stats, s).temp
      def == Carry(b, stats, Other(s)).temp
  IN netDamage2(CardDef(h.card).potency, powerStatOf(types, att),
                att.attackPower,
                IF h.bypass THEN 0 ELSE def.durability + buffDef[Other(s)],
                powerStatOf(types, def))

\* a live entry of the ledger changes a stat
StatEntries(bucket) ==
  {i \in 1..Len(bucket) :
     bucket[i].type \in {"Stats Up", "Stats Down"} /\ bucket[i].remaining > 0}

\* C27: scheduled hits use the shared damage formula. The damage of a
\* FieldCard's scheduled hit equals the net damage the Damage Calculator
\* gives an immediate, unguarded, undodged hit by that card under the same
\* ledger; active Stats Up / Stats Down entries change a scheduled hit as
\* they change an immediate hit.
C27_SharedFormula ==
  [][\A s \in Sides : Ticking(s) =>
       \A h \in 1..Len(hitLog') :
         hitLog'[h].kind = "field" =>
           hitLog'[h].dmg2 = ImmediateNet2(s, hitLog'[h], buckets)]_vars

\* C27, the part the code keeps: with no live Stats Up / Stats Down entry on
\* either side the scheduled hit equals the immediate hit
C27_SameOnBaseStats ==
  [][\A s \in Sides : Ticking(s) =>
       \A h \in 1..Len(hitLog') :
         (/\ hitLog'[h].kind = "field"
          /\ \A t \in Sides : StatEntries(buckets[t]) = {}) =>
           hitLog'[h].dmg2 = ImmediateNet2(s, hitLog'[h], buckets)]_vars

\* C27 case: a scheduled hit lands while the attacker holds a live Stats Up
\* and no child ability fires on the tick
C27_BuffedFieldHit ==
  /\ pc = "eMain"
  /\ fireLog = <<>>
  /\ \E h \in 1..Len(hitLog) : hitLog[h].kind = "field"
  /\ StatEntries(buckets.enemy) # {}

\* the number of entries of the sequence s whose catalog card is n
CountOf(n, s) == Cardinality({i \in 1..Len(s) : s[i] = n})

\* the catalog cards of a sequence of card instances
NamesOf(cards) == [i \in 1..Len(cards) |-> CardOf[cards[i]]]

\* the cards of combo c are all in the hand, and the hand cards that make it
\* up cost no more than the SP
Affordable(c, hnd, enemySp) ==
  /\ \A n \in SeqToSet(c.cards) : CountOf(n, c.cards) <= CountOf(n, NamesOf(hnd))
  /\ SumSeq([i \in 1..Len(c.cards) |-> cardDb[c.cards[i]].spCost]) <= enemySp

\* the affordable combos of highest priority
BestCombos(hnd, enemySp) ==
  {i \in 1..Len(aiConfig.combos) :
     /\ Affordable(aiConfig.combos[i], hnd, enemySp)
     /\ \A j \in 1..Len(aiConfig.combos) :
          Affordable(aiConfig.combos[j], hnd, enemySp) =>
            aiConfig.combos[j].priority <= aiConfig.combos[i].priority}

\* the set of played instances holds the cards of combo c
Holds(cards, c) ==
  \A n \in SeqToSet(c.cards) :
    CountOf(n, c.cards)
      <= Cardinality({x \in SeqToSet(cards) : CardOf[x] = n})

\* the cards of the play are distinct instances of the enemy's hand
DistinctFromHand(cards, hnd) ==
  /\ \A i, j \in 1..Len(cards) : i # j => cards[i] # cards[j]
  /\ SeqToSet(cards) \subseteq SeqToSet(hnd)

\* C28: enemy play set. Whenever chooseEnemyAction returns 'play', the
\* returned cards are distinct card instances of the enemy's hand with total
\* spCost <= the enemy's SP, they contain the highest-priority combo whose
\* cards are all in hand and whose cost is <= SP (if there is one), and the
\* enemy's SP after paying for the play is >= 0.
C28_EnemyPlaySet ==
  /\ (pc = "aiDecided" /\ eChoice.action = "play") =>
       /\ DistinctFromHand(eChoice.cards, hand.enemy)
       /\ costOf(eChoice.cards) <= sp.enemy
       /\ BestCombos(hand.enemy, sp.enemy) # {} =>
            \E i \in BestCombos(hand.enemy, sp.enemy) :
              Holds(eChoice.cards, aiConfig.combos[i])
  /\ pc = "aiSpent" => sp.enemy >= 0

\* C28, the part the code keeps: the cards of a play are in the enemy's
\* hand, cost no more than the SP, and leave an SP >= 0
C28_WithinHandAndSp ==
  /\ (pc = "aiDecided" /\ eChoice.action = "play") =>
       /\ SeqToSet(eChoice.cards) \subseteq SeqToSet(hand.enemy)
       /\ costOf(eChoice.cards) <= sp.enemy
  /\ pc = "aiSpent" => sp.enemy >= 0

\* C28 with combos of positive priority that list no card twice: the play
\* is a set of distinct hand cards that holds the best affordable combo
C28_PlainCombos ==
  (/\ pc = "aiDecided" /\ eChoice.action = "play"
   /\ \A i \in 1..Len(aiConfig.combos) :
        /\ aiConfig.combos[i].priority > 0
        /\ \A n \in SeqToSet(aiConfig.combos[i].cards) :
             CountOf(n, aiConfig.combos[i].cards) = 1) =>
    /\ DistinctFromHand(eChoice.cards, hand.enemy)
    /\ BestCombos(hand.enemy, sp.enemy) # {} =>
         \E i \in BestCombos(hand.enemy, sp.enemy) :
           Holds(eChoice.cards, aiConfig.combos[i])

\* C28 case: the play holds one card instance twice
C28_SameInstanceTwice ==
  /\ pc = "aiDecided" /\ eChoice.action = "play"
  /\ \E i, j \in 1..Len(eChoice.cards) :
       i # j /\ eChoice.cards[i] = eChoice.cards[j]

\* C28 case: an affordable combo of priority 0 is left out of the play
C28_ComboLeftOut ==
  /\ pc = "aiDecided" /\ eChoice.action = "play"
  /\ \E i \in BestCombos(hand.enemy, sp.enemy) :
       /\ aiConfig.combos[i].priority = 0
       /\ ~Holds(eChoice.cards, aiConfig.combos[i])

\* C28 case: the play holds the best of two affordable combos
C28_BestOfTwo ==
  /\ pc = "aiDecided" /\ eChoice.action = "play"
  /\ Cardinality({i \in 1..Len(aiConfig.combos) :
                    Affordable(aiConfig.combos[i], hand.enemy, sp.enemy)}) = 2
  /\ \E i \in BestCombos(hand.enemy, sp.enemy) :
       Holds(eChoice.cards, aiConfig.combos[i])

\* the instance ids of the cards on a field, in field order
FieldSeq(field) == [i \in 1..Len(field) |-> field[i].instanceId]

\* how many times the card instance n of side s is held by the snapshot st:
\* in the hand, in the deck and on the field (the discard piles are handed
\* through a turn untouched and stay empty)
Copies(st, s, n) ==
  CountOf(n, st.hand[s]) + CountOf(n, st.deck[s])
    + CountOf(n, FieldSeq(st.onField[s]))

\* the card instances a snapshot can hold
Instances == DOMAIN CardOf

\* side s holds the same multiset of card instances in both snapshots
SameCards(before, after, s) ==
  \A n \in Instances : Copies(before, s, n) = Copies(after, s, n)

\* C29: card conservation. Across any turn (a full turn or a seed / no-op
\* exit), for each side the multiset of card instances in hand + deck +
\* discard + field is the same in the result as in the incoming state: no
\* instance is lost or duplicated.
C29_CardConservation ==
  [][(Completes /\ exitKind' \in {"full", "seed", "noop"}) =>
       \A s \in Sides : SameCards(saved, saved', s)]_vars

\* no side holds an instance fewer times in the result than before
C29_NoInstanceLost ==
  [][(Completes /\ exitKind' \in {"full", "seed", "noop"}) =>
       \A s \in Sides : \A n \in Instances :
         Copies(saved', s, n) >= Copies(saved, s, n)]_vars

\* no side holds an instance more times in the result than before
C29_NoInstanceDuplicated ==
  [][(Completes /\ exitKind' \in {"full", "seed", "noop"}) =>
       \A s \in Sides : \A n \in Instances :
         Copies(saved', s, n) <= Copies(saved, s, n)]_vars

\* every entry of both sides of a ledger has a persistent type
PersistentOnly(ledger) ==
  \A s \in Sides : \A i \in 1..Len(ledger[s]) :
    ledger[s][i].type \in PERSISTENT_TYPES

\* C30: the ledger holds only persistent types. Given an incoming ledger whose
\* entries all have a persistent type, every entry of the outgoing ledger of
\* the turn has a persistent type: the per-attack types (Durability Negation,
\* Ability Negation, Instant Death) are never stored, whether the ability
\* arrives through pre-damage adoption or through a FieldCard child firing.
C30_LedgerPersistentOnly ==
  [][(Completes /\ exitKind' \in {"full", "seed", "noop"}
        /\ PersistentOnly(saved.activeEffects)) =>
       PersistentOnly(saved'.activeEffects)]_vars

\* the adoption path alone: no pre-damage adoption stores a per-attack type
C30_AdoptionPersistentOnly ==
  \A i \in 1..Len(upLog) :
    upLog[i].via = "adopt" => upLog[i].type \in PERSISTENT_TYPES

\* a FieldCard child of a per-attack type fired into a ledger
C30_PerAttackChildStored ==
  \E i \in 1..Len(upLog) :
    /\ upLog[i].via = "field"
    /\ upLog[i].type \in PER_ATTACK_TYPES
    /\ \E s \in Sides : \E j \in 1..Len(buckets[s]) :
         buckets[s][j].type = upLog[i].type

\* the duration tick of this step deletes the Freeze of side s
FreezeExpires(s) ==
  /\ pc = "tick" /\ pc' = "respond"
  /\ frozenPersist(buckets[s])
  /\ ~frozenPersist(buckets'[s])

\* the Freeze recorded against side s was adopted with a duration >= 1 and
\* s is alive, so that its main actions are reached
Tracked(s) == frzLog[s].duration >= 1 /\ hp2[s] > 0

\* the Freeze adopted against side s has blocked exactly its duration when
\* the duration tick deletes it, and never more than its duration
LastsDuration(s) ==
  /\ (FreezeExpires(s) /\ Tracked(s)) =>
       frzLog[s].skipped = frzLog[s].duration
  /\ frzLog'[s].duration >= 1 => frzLog'[s].skipped <= frzLog'[s].duration

\* C31: Freeze lasts its duration on either side. A Freeze of duration d >= 1
\* that is successfully adopted against a side causes exactly d subsequent
\* main actions of that side to be force-skipped, whether the player applied
\* it to the enemy or the enemy applied it to the player: the end-of-round
\* duration tick never expires it before it has blocked d main actions.
C31_FreezeLastsDuration ==
  [][\A s \in Sides : LastsDuration(s)]_vars

\* the half of C31 that the player's Freeze against the enemy satisfies
C31_PlayerFreezeLasts ==
  [][LastsDuration("enemy")]_vars

\* the player's Freeze of duration 2 expires after two skipped enemy actions
C31_EnemySkippedTwice ==
  /\ pc = "respond"
  /\ frzLog.enemy = [duration |-> 2, skipped |-> 2]
  /\ hp2.enemy > 0
  /\ ~frozenPersist(buckets.enemy)

\* the enemy's Freeze of duration 2 expired after one skipped player action
C31_PlayerSkippedOnce ==
  /\ pc = "respond"
  /\ frzLog.player = [duration |-> 2, skipped |-> 1]
  /\ hp2.player > 0
  /\ ~frozenPersist(buckets.player)

\* the enemy phases of a turn
EnemyPhases == {"FieldTick(enemy)", "MainAction(enemy)", "PileUpdate(enemy)"}

\* the turn stands at an enemy phase
AtEnemyPhase == pc \in {"eField", "eMain", "ePile"}

\* the step leaves alone what an enemy phase could change
EnemyPhaseIdle ==
  /\ hp2'.player = hp2.player
  /\ buckets'.player = buckets.player
  /\ sp'.enemy = sp.enemy
  /\ hand'.enemy = hand.enemy
  /\ deck'.enemy = deck.enemy
  /\ onField'.enemy = onField.enemy
  /\ phases' = phases
  /\ pc' = "tick"

\* C32: a dead enemy does not act. If the enemy's HP is <= 0 (and not
\* revived) after the player's phases of a turn, no enemy FieldTick and no
\* enemy MainAction runs in that turn: the player's HP and ledger and the
\* enemy's SP, hand, deck and field are not changed by any enemy phase.
C32_DeadEnemyIdle ==
  [][(AtEnemyPhase /\ hp2.enemy <= 0) => EnemyPhaseIdle]_vars

\* the enemy died in the player's phases and the turn went on to the
\* duration tick without an enemy phase
C32_DeadEnemySkipped ==
  /\ pc = "tick"
  /\ hp2.enemy <= 0
  /\ phases # <<>>
  /\ phases[Len(phases)] = "PileUpdate(player)"
  /\ \A i \in 1..Len(phases) : phases[i] \notin EnemyPhases
  /\ onField.enemy # <<>>

\* an Ability Negation ability of the player's played cards succeeded in
\* the pre-damage pass recorded in log
NegationWon(log) ==
  \E i \in 1..Len(log) :
    /\ log[i].side = "player"
    /\ log[i].type = "Ability Negation"
    /\ log[i].outcome = "won"

\* the step is the player's main action of a request naming a negationTarget
NegationStep ==
  /\ pc = "pMain" /\ pc' = "pPile"
  /\ req.negationTarget # NoNegation

\* no card of either field leaves the field in the step
FieldsKept ==
  \A s \in Sides : FieldIds(onField[s]) \subseteq FieldIds(onField'[s])

\* C33: field removal needs a successful negation. A FieldCard is removed
\* from either side's field through the request's negationTarget only in a
\* turn in which an Ability Negation ability of the player's played cards
\* succeeded in the pre-damage pass; a request naming a negationTarget
\* without such a success leaves the membership of both field arrays
\* unchanged by that step.
C33_RemovalNeedsNegation ==
  [][(NegationStep /\ ~NegationWon(rollLog')) => FieldsKept]_vars

\* with a successful Ability Negation the named card is removed
C33_RemovedAfterSuccess ==
  [][(NegationStep /\ NegationWon(rollLog')
        /\ ~frozenPersist(buckets.player)) =>
       req.negationTarget.instanceId
         \notin FieldIds(onField'[req.negationTarget.owner])]_vars

====
